---- MODULE Spec2Model ----
(***************************************************************************)
(* Model of dsrag/dsparse/file_parsing/file_system.py: the FileSystem      *)
(* storage interface and its two backends, LocalFileSystem (a directory    *)
(* tree under base_path) and S3FileSystem (an object store, with a local   *)
(* mirror under base_path for downloaded page images).                     *)
(*                                                                         *)
(* Strings (ids, file names, paths, object keys) are sequences of tokens,  *)
(* so that formatting (f'page_{i}{ext}'), parsing (the sort key), prefix   *)
(* matching and key ordering are computed rather than assumed.  File and   *)
(* object contents are sequences of lexical tokens written by json.dump    *)
(* and read back by json.load.                                             *)
(***************************************************************************)
EXTENDS Integers, Sequences, FiniteSets, TLC

VARIABLES
    backend,     \* the backend the caller was configured with: its class name
    disk,        \* the local file system: [dirs: set of paths, files: path -> content]
    s3,          \* the bucket: object key -> content
    ret,         \* the last call: its operation, arguments and outcome
    lastJson,    \* history: <<fs, kb, doc, file name>> -> the object of the last save_json
                 \* that returned, and whether it replaced an earlier one
    lastContent, \* history: <<fs, kb, doc, page>> -> the same for save_page_content
    fsys,        \* the backend object: its class and the attributes __init__ set
    config,      \* the descriptor dict the caller holds (none before any)
    subclasses,  \* FileSystem.subclasses: class name -> class
    table,       \* the error table: the items put_item was accepted with, in order
    callers      \* the concurrent readers of a document: where each is in its call

vars == <<backend, disk, s3, ret, lastJson, lastContent, fsys, config, subclasses, table,
          callers>>

--------------------------------------------------------------------------
(* Optional values: Python's None and a present value. *)
None == <<"None">>

Some(x) == <<"Some", x>>

Value(o) == o[2]

(* Sequence helpers. *)
IsPrefix(p, s) == Len(p) <= Len(s) /\ SubSeq(s, 1, Len(p)) = p

EndsWith(s, suffix) ==
    Len(suffix) <= Len(s) /\ SubSeq(s, Len(s) - Len(suffix) + 1, Len(s)) = suffix

Positions(s, tok) == {i \in 1..Len(s) : s[i] = tok}

SetMax(S) == CHOOSE m \in S : \A o \in S : o <= m

SetMin(S) == CHOOSE m \in S : \A o \in S : m <= o

(* x.split(sep)[-1]: what follows the last sep (all of x when there is none). *)
AfterLast(s, sep) ==
    IF Positions(s, sep) = {} THEN s
    ELSE SubSeq(s, SetMax(Positions(s, sep)) + 1, Len(s))

(* x.split(sep)[0]: what precedes the first sep (all of x when there is none). *)
BeforeFirst(s, sep) ==
    IF Positions(s, sep) = {} THEN s
    ELSE SubSeq(s, 1, SetMin(Positions(s, sep)) - 1)

--------------------------------------------------------------------------
(* Decimal formatting and parsing of integers: f'{i}' and int(s). *)
DigitTok == <<"0", "1", "2", "3", "4", "5", "6", "7", "8", "9">>

DigitVal(t) == (CHOOSE i \in 1..10 : DigitTok[i] = t) - 1

IsDigit(t) == \E i \in 1..10 : DigitTok[i] = t

RECURSIVE IntStr(_)
IntStr(i) ==
    IF i < 0 THEN <<"-">> \o IntStr(-i)
    ELSE IF i < 10 THEN <<DigitTok[i + 1]>>
    ELSE IntStr(i \div 10) \o <<DigitTok[(i % 10) + 1]>>

RECURSIVE DigitsVal(_)
DigitsVal(s) ==
    IF s = <<>> THEN 0
    ELSE 10 * DigitsVal(SubSeq(s, 1, Len(s) - 1)) + DigitVal(s[Len(s)])

AllDigits(s) == s # <<>> /\ \A i \in 1..Len(s) : IsDigit(s[i])

(* int(s): [ok, v]; ok = FALSE stands for ValueError. *)
ParseInt(s) ==
    IF AllDigits(s) THEN [ok |-> TRUE, v |-> DigitsVal(s)]
    ELSE IF s # <<>> /\ s[1] = "-" /\ AllDigits(Tail(s))
         THEN [ok |-> TRUE, v |-> 0 - DigitsVal(Tail(s))]
    ELSE [ok |-> FALSE, v |-> 0]

(* The sort key of get_all_jpg_files: int(x.split('_')[-1].split('.')[0]). *)
PageSortKey(x) == ParseInt(BeforeFirst(AfterLast(x, "_"), "."))

--------------------------------------------------------------------------
(* Names. *)
ImageExts == << <<".", "jpg">>, <<".", "jpeg">>, <<".", "png">> >>

PageImageName(i, ext) == <<"page", "_">> \o IntStr(i) \o ext

PageContentName(i) == <<"page", "_", "content", "_">> \o IntStr(i) \o <<".", "json">>

DataFileName(data_name) == data_name \o <<".", "json">>

(* str.lower() on the tokens of a name. *)
LowerTok(t) ==
    CASE t = "JPG" -> "jpg"
      [] t = "JPEG" -> "jpeg"
      [] t = "PNG" -> "png"
      [] OTHER -> t

Lower(s) == [i \in 1..Len(s) |-> LowerTok(s[i])]

IsImageName(s) == \E j \in 1..Len(ImageExts) : EndsWith(s, ImageExts[j])

(* os.path.join(a, b) for a relative b. *)
PathJoin(a, b) ==
    IF a = <<>> THEN b
    ELSE IF a[Len(a)] = "/" THEN a \o b
    ELSE a \o <<"/">> \o b

(* f"{kb_id}/{doc_id}/{file_name}" and the two prefixes. *)
ObjectKey(kb, doc, name) == kb \o <<"/">> \o doc \o <<"/">> \o name

(* The document prefix without its closing separator. *)
Mutant_DocPrefix(kb, doc) == kb \o <<"/">> \o doc

DocPrefix(kb, doc) == kb \o <<"/">> \o doc \o <<"/">>

(* The knowledge-base prefix without its closing separator. *)
Mutant_KbPrefix(kb) == kb

KbPrefix(kb) == kb \o <<"/">>

--------------------------------------------------------------------------
(* Byte order of the tokens in use, as S3 lists keys in it. *)
TokOrder ==
    <<"-", ".", "/", "0", "1", "2", "3", "4", "5", "6", "7", "8", "9",
      "JPEG", "JPG", "PNG", "_", "cache", "content", "data", "doc", "elements",
      "jpeg", "jpg", "json", "kb", "meta", "page", "png">>

TokRank(t) == CHOOSE i \in 1..Len(TokOrder) : TokOrder[i] = t

RECURSIVE KeyLess(_, _)
KeyLess(a, b) ==
    IF a = <<>> THEN b # <<>>
    ELSE IF b = <<>> THEN FALSE
    ELSE IF a[1] = b[1] THEN KeyLess(Tail(a), Tail(b))
    ELSE TokRank(a[1]) < TokRank(b[1])

RECURSIVE KeySorted(_)
KeySorted(S) ==
    IF S = {} THEN <<>>
    ELSE LET m == CHOOSE k \in S : \A o \in S \ {k} : KeyLess(k, o)
         IN  <<m>> \o KeySorted(S \ {m})

--------------------------------------------------------------------------
(* The object store (boto3 S3 client) as the code uses it. *)

(* One list_objects_v2 response holds at most this many keys (1000 in S3,   *)
(* scaled down); the code never asks for the next page.                    *)
ListMaxKeys == 3

KeysWithPrefix(store, prefix) == {k \in DOMAIN store : IsPrefix(prefix, k)}

(* response['Contents'] of list_objects_v2(Bucket, Prefix), in key order;   *)
(* the empty sequence stands for a response without 'Contents'.            *)
ListObjectsV2(store, prefix) ==
    LET all == KeySorted(KeysWithPrefix(store, prefix))
    IN  SubSeq(all, 1, IF Len(all) < ListMaxKeys THEN Len(all) ELSE ListMaxKeys)

SeqRange(s) == {s[i] : i \in 1..Len(s)}

DeleteObjects(store, keys) == [k \in (DOMAIN store) \ keys |-> store[k]]

PutObject(store, key, body) ==
    [k \in (DOMAIN store) \cup {key} |-> IF k = key THEN body ELSE store[k]]

--------------------------------------------------------------------------
(* The local file system (os, open) as the code uses it. *)
RECURSIVE Norm(_)
Norm(p) ==
    IF Len(p) > 1 /\ p[Len(p)] = "/" THEN Norm(SubSeq(p, 1, Len(p) - 1)) ELSE p

Parent(p) ==
    LET q == Norm(p)
    IN  IF Positions(q, "/") = {} THEN <<>>
        ELSE SubSeq(q, 1, SetMax(Positions(q, "/")) - 1)

Ancestors(p) ==
    LET q == Norm(p)
    IN  {SubSeq(q, 1, i - 1) : i \in {j \in Positions(q, "/") : j > 1}} \cup {q}

IsDir(d, p) == Norm(p) \in d.dirs

IsFile(d, p) == Norm(p) \in DOMAIN d.files

PathExists(d, p) == IsDir(d, p) \/ IsFile(d, p)

IsChild(dir, q) ==
    /\ IsPrefix(dir \o <<"/">>, q)
    /\ Len(q) > Len(dir) + 1
    /\ \A i \in (Len(dir) + 2)..Len(q) : q[i] # "/"

(* os.listdir(p): the names of the entries of directory p. *)
ListDir(d, p) ==
    LET dir == Norm(p)
    IN  {SubSeq(q, Len(dir) + 2, Len(q)) :
            q \in {e \in d.dirs \cup DOMAIN d.files : IsChild(dir, e)}}

(* os.makedirs(p): p and every missing ancestor. *)
MakeDirs(d, p) == [d EXCEPT !.dirs = @ \cup Ancestors(p)]

(* open(p, 'w') and the write: needs the parent directory, and p not a directory. *)
CanWriteFile(d, p) == IsDir(d, Parent(p)) /\ ~IsDir(d, p)

WriteFile(d, p, content) ==
    [d EXCEPT !.files =
        [q \in (DOMAIN @) \cup {p} |-> IF q = p THEN content ELSE @[q]]]

RemoveFiles(d, paths) ==
    [d EXCEPT !.files = [q \in (DOMAIN @) \ paths |-> @[q]]]

RemoveDir(d, p) == [d EXCEPT !.dirs = @ \ {Norm(p)}]

(* The loop "for file in os.listdir(p): os.remove(join(p, file))" and the   *)
(* os.rmdir(p) after it.  os.remove raises on an entry that is itself a     *)
(* directory, and the rmdir is then not reached: the files are gone, the    *)
(* directories stay.                                                        *)
ClearAndRemoveDir(d, p) ==
    LET entries == {PathJoin(Norm(p), n) : n \in ListDir(d, p)}
        files   == {e \in entries : IsFile(d, e)}
        subdirs == entries \ files
    IN  IF subdirs = {}
        THEN [disk |-> RemoveDir(RemoveFiles(d, files), p), status |-> "ok",
              exc |-> ""]
        ELSE [disk |-> RemoveFiles(d, files), status |-> "raise",
              exc |-> "IsADirectoryError"]

--------------------------------------------------------------------------
(* JSON values, and json.dumps / json.loads over lexical tokens. *)
JNull == [t |-> "null", s |-> "", n |-> 0, keys |-> <<>>, items |-> <<>>]

JBool(b) ==
    [t |-> IF b THEN "true" ELSE "false", s |-> "", n |-> 0, keys |-> <<>>,
     items |-> <<>>]

JStr(str) == [t |-> "str", s |-> str, n |-> 0, keys |-> <<>>, items |-> <<>>]

JInt(i) == [t |-> "int", s |-> "", n |-> i, keys |-> <<>>, items |-> <<>>]

JList(xs) == [t |-> "list", s |-> "", n |-> 0, keys |-> <<>>, items |-> xs]

(* A dict with string keys ks (in insertion order) and values xs. *)
JObj(ks, xs) == [t |-> "obj", s |-> "", n |-> 0, keys |-> ks, items |-> xs]

Tok(kind) == [k |-> kind, s |-> "", n |-> 0]

StrTok(str) == [k |-> "str", s |-> str, n |-> 0]

IntTok(i) == [k |-> "int", s |-> "", n |-> i]

(* A newline followed by n spaces of indentation. *)
NewlineTok(n) == [k |-> "nl", s |-> "", n |-> n]

SpaceTok == Tok("sp")

IsWhitespace(tok) == tok.k \in {"nl", "sp"}

(* What separates two items and what opens and closes a non-empty container, *)
(* for indent = None (0 here) and for indent = 2.                            *)
ItemSep(indent, level) ==
    IF indent = 0 THEN <<Tok(","), SpaceTok>>
    ELSE <<Tok(","), NewlineTok(indent * level)>>

OpenPad(indent, level) ==
    IF indent = 0 THEN <<>> ELSE <<NewlineTok(indent * level)>>

ClosePad(indent, level) ==
    IF indent = 0 THEN <<>> ELSE <<NewlineTok(indent * (level - 1))>>

RECURSIVE DumpValue(_, _, _), DumpItems(_, _, _, _, _)
(* The text of items i..Len of container v, at nesting depth level. *)
DumpItems(v, i, indent, level, isObj) ==
    IF i > Len(v.items) THEN <<>>
    ELSE (IF i > 1 THEN ItemSep(indent, level) ELSE <<>>)
         \o (IF isObj THEN <<StrTok(v.keys[i]), Tok(":"), SpaceTok>> ELSE <<>>)
         \o DumpValue(v.items[i], indent, level)
         \o DumpItems(v, i + 1, indent, level, isObj)

DumpValue(v, indent, level) ==
    CASE v.t = "null" -> <<Tok("null")>>
      [] v.t = "true" -> <<Tok("true")>>
      [] v.t = "false" -> <<Tok("false")>>
      [] v.t = "str" -> <<StrTok(v.s)>>
      [] v.t = "int" -> <<IntTok(v.n)>>
      [] v.t = "list" ->
            IF v.items = <<>> THEN <<Tok("["), Tok("]")>>
            ELSE <<Tok("[")>> \o OpenPad(indent, level + 1)
                 \o DumpItems(v, 1, indent, level + 1, FALSE)
                 \o ClosePad(indent, level + 1) \o <<Tok("]")>>
      [] v.t = "obj" ->
            IF v.items = <<>> THEN <<Tok("{"), Tok("}")>>
            ELSE <<Tok("{")>> \o OpenPad(indent, level + 1)
                 \o DumpItems(v, 1, indent, level + 1, TRUE)
                 \o ClosePad(indent, level + 1) \o <<Tok("}")>>

(* json.dumps(v, indent=indent); indent 0 stands for the default, None. *)
JsonDumps(v, indent) == DumpValue(v, indent, 0)

RECURSIVE SkipWs(_)
SkipWs(ts) ==
    IF ts # <<>> /\ IsWhitespace(Head(ts)) THEN SkipWs(Tail(ts)) ELSE ts

ParseFail == [ok |-> FALSE, v |-> JNull, rest |-> <<>>]

ParseOk(v, rest) == [ok |-> TRUE, v |-> v, rest |-> rest]

(* dict semantics of a repeated key: the last value wins, at the first place. *)
ObjPut(obj, key, val) ==
    IF \E i \in 1..Len(obj.keys) : obj.keys[i] = key
    THEN LET i == CHOOSE j \in 1..Len(obj.keys) : obj.keys[j] = key
         IN  [obj EXCEPT !.items[i] = val]
    ELSE [obj EXCEPT !.keys = Append(@, key), !.items = Append(@, val)]

RECURSIVE ParseValue(_), ParseElems(_, _), ParseMembers(_, _)
ParseValue(ts0) ==
    LET ts == SkipWs(ts0)
    IN  IF ts = <<>> THEN ParseFail
        ELSE LET h == Head(ts)
                 r == Tail(ts)
             IN  CASE h.k = "null" -> ParseOk(JNull, r)
                   [] h.k = "true" -> ParseOk(JBool(TRUE), r)
                   [] h.k = "false" -> ParseOk(JBool(FALSE), r)
                   [] h.k = "str" -> ParseOk(JStr(h.s), r)
                   [] h.k = "int" -> ParseOk(JInt(h.n), r)
                   [] h.k = "[" ->
                        IF SkipWs(r) # <<>> /\ Head(SkipWs(r)).k = "]"
                        THEN ParseOk(JList(<<>>), Tail(SkipWs(r)))
                        ELSE ParseElems(r, JList(<<>>))
                   [] h.k = "{" ->
                        IF SkipWs(r) # <<>> /\ Head(SkipWs(r)).k = "}"
                        THEN ParseOk(JObj(<<>>, <<>>), Tail(SkipWs(r)))
                        ELSE ParseMembers(r, JObj(<<>>, <<>>))
                   [] OTHER -> ParseFail

(* value ("," value)* "]" *)
ParseElems(ts, acc) ==
    LET pv == ParseValue(ts)
        r  == SkipWs(pv.rest)
        xs == [acc EXCEPT !.items = Append(@, pv.v)]
    IN  IF ~pv.ok \/ r = <<>> THEN ParseFail
        ELSE IF Head(r).k = "," THEN ParseElems(Tail(r), xs)
        ELSE IF Head(r).k = "]" THEN ParseOk(xs, Tail(r))
        ELSE ParseFail

(* string ":" value ("," string ":" value)* "}" *)
ParseMembers(ts0, acc) ==
    LET ts == SkipWs(ts0)
    IN  IF Len(ts) < 2 \/ Head(ts).k # "str" THEN ParseFail
        ELSE LET c == SkipWs(Tail(ts))
             IN  IF c = <<>> \/ Head(c).k # ":" THEN ParseFail
                 ELSE LET pv == ParseValue(Tail(c))
                          r  == SkipWs(pv.rest)
                          o  == ObjPut(acc, Head(ts).s, pv.v)
                      IN  IF ~pv.ok \/ r = <<>> THEN ParseFail
                          ELSE IF Head(r).k = "," THEN ParseMembers(Tail(r), o)
                          ELSE IF Head(r).k = "}" THEN ParseOk(o, Tail(r))
                          ELSE ParseFail

(* json.loads(text): [ok, v]; ok = FALSE stands for json.JSONDecodeError. *)
JsonLoads(text) ==
    LET pv == ParseValue(text)
    IN  IF pv.ok /\ SkipWs(pv.rest) = <<>> THEN [ok |-> TRUE, v |-> pv.v]
        ELSE [ok |-> FALSE, v |-> JNull]

(* The bytes an image is saved as. *)
ImageBytes(image, format) == <<[k |-> "image", s |-> image, n |-> 0], Tok(format)>>

--------------------------------------------------------------------------
(* The two backends.  Every method is an operator from the state it reads   *)
(* (the disk d, the bucket store) and its arguments to its outcome: the new *)
(* disk and bucket, whether it returned ("ok") or raised, the exception,    *)
(* and the value returned.                                                  *)
LocalBase == <<"data">>

(* Both backends are given the same base_path, so the mirror of the S3     *)
(* backend is laid out in the directory the local backend stores in.       *)
S3Base == <<"data">>

Outcome(d, store, status, exc, val) ==
    [disk |-> d, s3 |-> store, status |-> status, exc |-> exc, val |-> val]

Returns(d, store, val) == Outcome(d, store, "ok", "", val)

Raises(d, store, exc) == Outcome(d, store, "raise", exc, None)

(* os.path.join(self.base_path, kb_id, doc_id) *)
DocPath(base, kb, doc) == PathJoin(PathJoin(base, kb), doc)

(* ---- class LocalFileSystem ---- *)
(* create_directory keeping what is there: os.makedirs(..., exist_ok=True)  *)
(* without the clearing.                                                    *)
Mutant_LocalFileSystem_create_directory(d, store, kb, doc) ==
    LET page_images_path == DocPath(LocalBase, kb, doc)
    IN  IF PathExists(d, page_images_path) /\ ~IsDir(d, page_images_path)
        THEN Raises(d, store, "FileExistsError")
        ELSE Returns(MakeDirs(d, page_images_path), store, None)

LocalFileSystem_create_directory(d, store, kb, doc) ==
    LET page_images_path == DocPath(LocalBase, kb, doc)
    IN  IF PathExists(d, page_images_path)
        THEN IF ~IsDir(d, page_images_path)
             THEN Raises(d, store, "NotADirectoryError")
             ELSE LET cleared == ClearAndRemoveDir(d, page_images_path)
                  IN  IF cleared.status = "raise"
                      THEN Raises(cleared.disk, store, cleared.exc)
                      ELSE Returns(MakeDirs(cleared.disk, page_images_path), store, None)
        ELSE Returns(MakeDirs(d, page_images_path), store, None)

LocalFileSystem_delete_directory(d, store, kb, doc) ==
    LET page_images_path == DocPath(LocalBase, kb, doc)
    IN  IF PathExists(d, page_images_path) /\ IsDir(d, page_images_path)
        THEN LET cleared == ClearAndRemoveDir(d, page_images_path)
             IN  IF cleared.status = "raise"
                 THEN Raises(cleared.disk, store, cleared.exc)
                 ELSE Returns(cleared.disk, store, None)
        ELSE Returns(d, store, None)

(* "for doc_id in os.listdir(kb_path): self.delete_directory(kb_id, doc_id)": *)
(* the listing is taken once; a raise ends the loop.                         *)
RECURSIVE LocalDeleteEach(_, _, _, _)
LocalDeleteEach(d, store, kb, doc_ids) ==
    IF doc_ids = {} THEN Returns(d, store, None)
    ELSE LET doc_id == CHOOSE n \in doc_ids : TRUE
             one    == LocalFileSystem_delete_directory(d, store, kb, doc_id)
         IN  IF one.status = "raise" THEN one
             ELSE LocalDeleteEach(one.disk, store, kb, doc_ids \ {doc_id})

LocalFileSystem_delete_kb(d, store, kb) ==
    LET kb_path == PathJoin(LocalBase, kb)
    IN  IF PathExists(d, kb_path)
        THEN IF ~IsDir(d, kb_path) THEN Raises(d, store, "NotADirectoryError")
             ELSE LET each == LocalDeleteEach(d, store, kb, ListDir(d, kb_path))
                  IN  IF each.status = "raise" THEN each
                      ELSE LocalFileSystem_delete_directory(each.disk, store, kb, <<>>)
        ELSE Returns(d, store, None)

(* open(file_path, "w") and the write of text; accepted = FALSE is the       *)
(* operating system refusing the write (permissions, quota), which open      *)
(* raises as OSError and nothing catches.                                    *)
LocalWrite(d, store, file_path, text, accepted) ==
    IF IsDir(d, file_path) THEN Raises(d, store, "IsADirectoryError")
    ELSE IF ~CanWriteFile(d, file_path) THEN Raises(d, store, "FileNotFoundError")
    ELSE IF ~accepted THEN Raises(d, store, "OSError")
    ELSE Returns(WriteFile(d, file_path, text), store, None)

(* save_json opening the file with "a" instead of "w". *)
Mutant_LocalFileSystem_save_json(d, store, kb, doc, file_name, file, accepted) ==
    LET file_path == PathJoin(DocPath(LocalBase, kb, doc), file_name)
    IN  LocalWrite(d, store, file_path,
                   (IF IsFile(d, file_path) THEN d.files[file_path] ELSE <<>>)
                       \o JsonDumps(file, 2),
                   accepted)

LocalFileSystem_save_json(d, store, kb, doc, file_name, file, accepted) ==
    LocalWrite(d, store, PathJoin(DocPath(LocalBase, kb, doc), file_name),
               JsonDumps(file, 2), accepted)

(* image.save(path) takes the format from the extension of the name. *)
FormatOf(file_name) ==
    IF EndsWith(Lower(file_name), <<".", "jpg">>) \/ EndsWith(Lower(file_name), <<".", "jpeg">>)
    THEN "JPEG"
    ELSE IF EndsWith(Lower(file_name), <<".", "png">>) THEN "PNG"
    ELSE ""

LocalFileSystem_save_image(d, store, kb, doc, file_name, image, accepted) ==
    IF FormatOf(file_name) = "" THEN Raises(d, store, "ValueError")
    ELSE LocalWrite(d, store, PathJoin(DocPath(LocalBase, kb, doc), file_name),
                    ImageBytes(image, FormatOf(file_name)), accepted)

(* The inner loop of get_files: the first extension, from the j-th on, whose *)
(* file exists, as a list of at most one path.                               *)
(* The inner loop without its break: every extension that exists. *)
RECURSIVE Mutant_LocalFirstImage(_, _, _, _)
Mutant_LocalFirstImage(d, page_images_path, i, j) ==
    IF j > Len(ImageExts) THEN <<>>
    ELSE LET image_file_path == PathJoin(page_images_path, PageImageName(i, ImageExts[j]))
         IN  (IF PathExists(d, image_file_path) THEN <<image_file_path>> ELSE <<>>)
             \o Mutant_LocalFirstImage(d, page_images_path, i, j + 1)

RECURSIVE LocalFirstImage(_, _, _, _)
LocalFirstImage(d, page_images_path, i, j) ==
    IF j > Len(ImageExts) THEN <<>>
    ELSE LET image_file_path == PathJoin(page_images_path, PageImageName(i, ImageExts[j]))
         IN  IF PathExists(d, image_file_path) THEN <<image_file_path>>
             ELSE LocalFirstImage(d, page_images_path, i, j + 1)

RECURSIVE LocalGetFilesFrom(_, _, _, _)
LocalGetFilesFrom(d, page_images_path, i, page_end) ==
    IF i > page_end THEN <<>>
    ELSE LocalFirstImage(d, page_images_path, i, 1)
         \o LocalGetFilesFrom(d, page_images_path, i + 1, page_end)

(* page_start and page_end are optional integers: None or Some(n). *)
LocalFileSystem_get_files(d, store, kb, doc, page_start, page_end) ==
    IF page_start = None \/ page_end = None THEN Returns(d, store, <<>>)
    ELSE Returns(d, store,
                 LocalGetFilesFrom(d, DocPath(LocalBase, kb, doc), Value(page_start),
                                   Value(page_end)))

(* list.sort(key=...) is stable: x goes after every element whose key is not *)
(* greater than its own.                                                     *)
RECURSIVE InsertByPage(_, _)
InsertByPage(sorted, x) ==
    IF sorted = <<>> THEN <<x>>
    ELSE IF PageSortKey(x).v < PageSortKey(Head(sorted)).v THEN <<x>> \o sorted
    ELSE <<Head(sorted)>> \o InsertByPage(Tail(sorted), x)

RECURSIVE SortByPage(_)
SortByPage(paths) ==
    IF paths = <<>> THEN <<>>
    ELSE InsertByPage(SortByPage(SubSeq(paths, 1, Len(paths) - 1)), paths[Len(paths)])

SortKeysOk(paths) == \A i \in 1..Len(paths) : PageSortKey(paths[i]).ok

(* The orders in which os.listdir may hand out the names S. *)
RECURSIVE ListingOrders(_)
ListingOrders(S) ==
    IF S = {} THEN {<<>>}
    ELSE UNION {{<<x>> \o rest : rest \in ListingOrders(S \ {x})} : x \in S}

(* get_all_jpg_files for one listing order (a sequence of names). *)
LocalGetAllJpgFilesOf(d, store, page_images_path, listing) ==
    LET images == SelectSeq(listing, IsImageName)
        image_file_paths == [i \in 1..Len(images) |-> PathJoin(page_images_path, images[i])]
    IN  IF SortKeysOk(image_file_paths)
        THEN Returns(d, store, SortByPage(image_file_paths))
        ELSE Raises(d, store, "ValueError")

(* The set of outcomes: os.listdir gives the names in arbitrary order. *)
LocalFileSystem_get_all_jpg_files(d, store, kb, doc) ==
    LET page_images_path == DocPath(LocalBase, kb, doc)
    IN  IF ~PathExists(d, page_images_path) THEN {Raises(d, store, "FileNotFoundError")}
        ELSE IF ~IsDir(d, page_images_path) THEN {Raises(d, store, "NotADirectoryError")}
        ELSE {LocalGetAllJpgFilesOf(d, store, page_images_path, listing) :
                listing \in ListingOrders(ListDir(d, page_images_path))}

(* A Python value as an optional: JSON null is None. *)
PyValue(v) == IF v.t = "null" THEN None ELSE Some(v)

(* Reading bytes that are no UTF-8 text (an image) as text. *)
IsText(content) == \A i \in 1..Len(content) : content[i].k # "image"

(* data["content"]: [ok, exc, v]. *)
ContentField(data) ==
    IF data.t # "obj" THEN [ok |-> FALSE, exc |-> "TypeError", v |-> JNull]
    ELSE IF \E i \in 1..Len(data.keys) : data.keys[i] = "content"
    THEN [ok |-> TRUE, exc |-> "",
          v |-> data.items[CHOOSE i \in 1..Len(data.keys) : data.keys[i] = "content"]]
    ELSE [ok |-> FALSE, exc |-> "KeyError", v |-> JNull]

PageContentObject(content) == JObj(<<"content">>, <<JStr(content)>>)

LocalFileSystem_save_page_content(d, store, kb, doc, page_number, content, accepted) ==
    LocalWrite(d, store,
               PathJoin(DocPath(LocalBase, kb, doc), PageContentName(page_number)),
               JsonDumps(PageContentObject(content), 0), accepted)

(* load_page_content returning the decoded file, not its "content" field. *)
Mutant_LocalFileSystem_load_page_content(d, store, kb, doc, page_number) ==
    LET page_content_path ==
            PathJoin(DocPath(LocalBase, kb, doc), PageContentName(page_number))
    IN  IF IsDir(d, page_content_path) THEN Raises(d, store, "IsADirectoryError")
        ELSE IF ~IsFile(d, page_content_path) THEN Returns(d, store, None)
        ELSE IF ~IsText(d.files[page_content_path])
             THEN Raises(d, store, "UnicodeDecodeError")
        ELSE LET data == JsonLoads(d.files[page_content_path])
             IN  IF ~data.ok THEN Raises(d, store, "JSONDecodeError")
                 ELSE Returns(d, store, PyValue(data.v))

LocalFileSystem_load_page_content(d, store, kb, doc, page_number) ==
    LET page_content_path ==
            PathJoin(DocPath(LocalBase, kb, doc), PageContentName(page_number))
    IN  IF IsDir(d, page_content_path) THEN Raises(d, store, "IsADirectoryError")
        ELSE IF ~IsFile(d, page_content_path) THEN Returns(d, store, None)
        ELSE IF ~IsText(d.files[page_content_path])
             THEN Raises(d, store, "UnicodeDecodeError")
        ELSE LET data == JsonLoads(d.files[page_content_path])
             IN  IF ~data.ok THEN Raises(d, store, "JSONDecodeError")
                 ELSE IF ~ContentField(data.v).ok
                      THEN Raises(d, store, ContentField(data.v).exc)
                 ELSE Returns(d, store, PyValue(ContentField(data.v).v))

(* The range loop stopping one page early: range(page_start, page_end). *)
RECURSIVE Mutant_LocalLoadRangeFrom(_, _, _, _, _, _)
Mutant_LocalLoadRangeFrom(d, store, kb, doc, page_num, page_end) ==
    IF page_num >= page_end THEN Returns(d, store, <<>>)
    ELSE LET content == LocalFileSystem_load_page_content(d, store, kb, doc, page_num)
         IN  IF content.status = "raise" THEN content
             ELSE LET rest == Mutant_LocalLoadRangeFrom(d, store, kb, doc, page_num + 1,
                                                        page_end)
                  IN  IF rest.status = "raise" THEN rest
                      ELSE IF content.val # None
                           THEN Returns(d, store, <<Value(content.val)>> \o rest.val)
                      ELSE rest

RECURSIVE LocalLoadRangeFrom(_, _, _, _, _, _)
LocalLoadRangeFrom(d, store, kb, doc, page_num, page_end) ==
    IF page_num > page_end THEN Returns(d, store, <<>>)
    ELSE LET content == LocalFileSystem_load_page_content(d, store, kb, doc, page_num)
         IN  IF content.status = "raise" THEN content
             ELSE LET rest == LocalLoadRangeFrom(d, store, kb, doc, page_num + 1, page_end)
                  IN  IF rest.status = "raise" THEN rest
                      ELSE IF content.val # None
                           THEN Returns(d, store, <<Value(content.val)>> \o rest.val)
                      ELSE rest

LocalFileSystem_load_page_content_range(d, store, kb, doc, page_start, page_end) ==
    IF page_start = None \/ page_end = None THEN Raises(d, store, "TypeError")
    ELSE LocalLoadRangeFrom(d, store, kb, doc, Value(page_start), Value(page_end))

LocalFileSystem_load_data(d, store, kb, doc, data_name) ==
    LET file_path == PathJoin(DocPath(LocalBase, kb, doc), DataFileName(data_name))
    IN  IF IsDir(d, file_path) THEN Raises(d, store, "IsADirectoryError")
        ELSE IF ~IsFile(d, file_path) THEN Returns(d, store, None)
        ELSE IF ~IsText(d.files[file_path]) THEN Raises(d, store, "UnicodeDecodeError")
        ELSE LET data == JsonLoads(d.files[file_path])
             IN  IF ~data.ok THEN Returns(d, store, None)
                 ELSE Returns(d, store, PyValue(data.v))

(* ---- class S3FileSystem ---- *)
S3FileSystem_create_directory(d, store, kb, doc) == Returns(d, store, None)

(* list_objects_v2 by prefix, then delete_objects of what the response holds; *)
(* the value returned is objects_to_delete, as the list of its keys.         *)
S3DeleteByPrefix(d, store, prefix) ==
    LET contents == ListObjectsV2(store, prefix)
    IN  IF contents # <<>>
        THEN Returns(d, DeleteObjects(store, SeqRange(contents)), contents)
        ELSE Returns(d, store, <<>>)

S3FileSystem_delete_directory(d, store, kb, doc) ==
    S3DeleteByPrefix(d, store, DocPrefix(kb, doc))

S3FileSystem_delete_kb(d, store, kb) == S3DeleteByPrefix(d, store, KbPrefix(kb))

(* put_object inside try/except that only reports the failure. *)
Mutant_S3Put(d, store, key, body, accepted) ==
    IF accepted THEN Returns(d, PutObject(store, key, body), None)
    ELSE Returns(d, store, None)

(* put_object inside try/except Exception: a put the store rejects is raised *)
(* as RuntimeError from the cause.                                           *)
S3Put(d, store, key, body, accepted) ==
    IF accepted THEN Returns(d, PutObject(store, key, body), None)
    ELSE Raises(d, store, "RuntimeError")

S3FileSystem_save_json(d, store, kb, doc, file_name, file, accepted) ==
    S3Put(d, store, ObjectKey(kb, doc, file_name), JsonDumps(file, 2), accepted)

S3FileSystem_save_image(d, store, kb, doc, file_name, image, accepted) ==
    S3Put(d, store, ObjectKey(kb, doc, file_name), ImageBytes(image, "JPEG"), accepted)

S3FileSystem_save_page_content(d, store, kb, doc, page_number, content, accepted) ==
    S3Put(d, store, ObjectKey(kb, doc, PageContentName(page_number)),
          JsonDumps(PageContentObject(content), 0), accepted)

(* "if not os.path.exists(output_folder): os.makedirs(output_folder)", with  *)
(* FileExistsError passed over.                                              *)
EnsureMirror(d, output_folder) ==
    IF PathExists(d, output_folder) THEN d ELSE MakeDirs(d, output_folder)

(* download_file(bucket, key, path) succeeds when the object exists and the  *)
(* path can be written; every failure is caught by the caller.               *)
CanDownload(d, store, key, path) == key \in DOMAIN store /\ CanWriteFile(d, path)

(* The downloads going into one flat directory. *)
Mutant_MirrorPath(key) == PathJoin(S3Base, AfterLast(key, "/"))

(* download_file writes each object to os.path.join(self.base_path, key). *)
MirrorPath(key) == PathJoin(S3Base, key)

(* What the downloads of keys leave on the disk.  A download changes no     *)
(* directory, so whether one succeeds does not depend on the ones before.   *)

Downloaded(d, store, keys) ==
    [d EXCEPT !.files =
        [q \in (DOMAIN @) \cup {MirrorPath(k) : k \in keys} |->
            IF \E k \in keys : MirrorPath(k) = q
            THEN store[CHOOSE k \in keys : MirrorPath(k) = q]
            ELSE @[q]]]

(* The inner loop of get_files for page i, from the j-th extension on: the  *)
(* key of the first download that succeeds, as a list of at most one key.   *)
(* d is the disk once the mirror directory of the document is ensured.      *)
RECURSIVE S3FirstImage(_, _, _, _, _, _)
S3FirstImage(d, store, kb, doc, i, j) ==
    IF j > Len(ImageExts) THEN <<>>
    ELSE LET filename == ObjectKey(kb, doc, PageImageName(i, ImageExts[j]))
         IN  IF CanDownload(d, store, filename, MirrorPath(filename))
             THEN <<filename>>
             ELSE S3FirstImage(d, store, kb, doc, i, j + 1)

(* The outer loop over range(page_start, page_end): the last page left out. *)
RECURSIVE Mutant_S3GetFilesFrom(_, _, _, _, _, _)
Mutant_S3GetFilesFrom(d, store, kb, doc, i, page_end) ==
    IF i >= page_end THEN <<>>
    ELSE S3FirstImage(d, store, kb, doc, i, 1)
         \o Mutant_S3GetFilesFrom(d, store, kb, doc, i + 1, page_end)

RECURSIVE S3GetFilesFrom(_, _, _, _, _, _)
S3GetFilesFrom(d, store, kb, doc, i, page_end) ==
    IF i > page_end THEN <<>>
    ELSE S3FirstImage(d, store, kb, doc, i, 1)
         \o S3GetFilesFrom(d, store, kb, doc, i + 1, page_end)

(* get_files trusting its mirror: a page is returned when the mirror holds  *)
(* a file for it, whatever the bucket holds.                                *)
Mutant_S3FileSystem_get_files(d, store, kb, doc, page_start, page_end) ==
    IF page_start = None \/ page_end = None THEN Returns(d, store, <<>>)
    ELSE LET d1 == IF Value(page_start) <= Value(page_end)
                   THEN EnsureMirror(d, DocPath(S3Base, kb, doc))
                   ELSE d
             found == S3GetFilesFrom(d1, store, kb, doc, Value(page_start), Value(page_end))
             d2 == Downloaded(d1, store, SeqRange(found))
             inMirror(path) == IsFile(d2, path)
             n == IF Value(page_start) <= Value(page_end)
                  THEN Value(page_end) - Value(page_start) + 1 ELSE 0
         IN  Returns(d2, store,
                     SelectSeq([i \in 1..n |->
                                   MirrorPath(ObjectKey(kb, doc,
                                       PageImageName(Value(page_start) + i - 1,
                                                     ImageExts[1])))],
                               inMirror))

(* The mirror directory is made in the first pass of the loops, if there is *)
(* one; the paths returned are those of the files downloaded.               *)
S3FileSystem_get_files(d, store, kb, doc, page_start, page_end) ==
    IF page_start = None \/ page_end = None THEN Returns(d, store, <<>>)
    ELSE LET d1 == IF Value(page_start) <= Value(page_end)
                   THEN EnsureMirror(d, DocPath(S3Base, kb, doc))
                   ELSE d
             found == S3GetFilesFrom(d1, store, kb, doc, Value(page_start), Value(page_end))
         IN  Returns(Downloaded(d1, store, SeqRange(found)), store,
                     [i \in 1..Len(found) |-> MirrorPath(found[i])])

IsImageKey(s3_key) == IsImageName(Lower(s3_key))

(* Everything is inside try/except Exception, which returns []; a download  *)
(* that fails is printed and skipped.                                       *)
S3FileSystem_get_all_jpg_files(d, store, kb, doc) ==
    LET contents == ListObjectsV2(store, DocPrefix(kb, doc))
        jpg_files == SelectSeq(contents, IsImageKey)
        output_folder == DocPath(S3Base, kb, doc)
        d1 == MakeDirs(d, output_folder)
        canGet(s3_key) == CanDownload(d1, store, s3_key, MirrorPath(s3_key))
        got == SelectSeq(jpg_files, canGet)
        local_file_paths == [i \in 1..Len(got) |-> MirrorPath(got[i])]
    IN  IF contents = <<>> THEN Returns(d, store, <<>>)
        ELSE IF IsFile(d, output_folder) THEN Returns(d, store, <<>>)
        ELSE IF SortKeysOk(local_file_paths)
             THEN Returns(Downloaded(d1, store, SeqRange(got)), store,
                          SortByPage(local_file_paths))
        ELSE Returns(Downloaded(d1, store, SeqRange(got)), store, <<>>)

S3FileSystem_load_page_content(d, store, kb, doc, page_number) ==
    LET file_name == ObjectKey(kb, doc, PageContentName(page_number))
    IN  IF file_name \notin DOMAIN store THEN Returns(d, store, None)
        ELSE IF ~IsText(store[file_name]) THEN Returns(d, store, None)
        ELSE LET data == JsonLoads(store[file_name])
             IN  IF ~data.ok \/ ~ContentField(data.v).ok THEN Returns(d, store, None)
                 ELSE Returns(d, store, PyValue(ContentField(data.v).v))

RECURSIVE S3LoadRangeFrom(_, _, _, _, _, _)
S3LoadRangeFrom(d, store, kb, doc, page_num, page_end) ==
    IF page_num > page_end THEN <<>>
    ELSE LET content == S3FileSystem_load_page_content(d, store, kb, doc, page_num).val
         IN  (IF content # None THEN <<Value(content)>> ELSE <<>>)
             \o S3LoadRangeFrom(d, store, kb, doc, page_num + 1, page_end)

S3FileSystem_load_page_content_range(d, store, kb, doc, page_start, page_end) ==
    IF page_start = None \/ page_end = None THEN Raises(d, store, "TypeError")
    ELSE Returns(d, store, S3LoadRangeFrom(d, store, kb, doc, Value(page_start), Value(page_end)))

S3FileSystem_load_data(d, store, kb, doc, data_name) ==
    LET s3_key == ObjectKey(kb, doc, DataFileName(data_name))
    IN  IF s3_key \notin DOMAIN store THEN Returns(d, store, None)
        ELSE IF ~IsText(store[s3_key]) THEN Returns(d, store, None)
        ELSE LET data == JsonLoads(store[s3_key])
             IN  IF ~data.ok THEN Returns(d, store, None)
                 ELSE Returns(d, store, PyValue(data.v))

--------------------------------------------------------------------------
(* The state machine: one action per method of the interface, on either     *)
(* backend fs.                                                              *)
Local == "LocalFileSystem"

S3 == "S3FileSystem"

FsNames == {Local, S3}

(* ---- class FileSystem: the registry and the descriptor ---- *)
(* A dict with string keys is a function on the set of its keys; attribute  *)
(* values are strings (token sequences) or None.                            *)
EmptyDict == [k \in {} |-> None]

DictGet(dict, key, default) == IF key \in DOMAIN dict THEN dict[key] ELSE default

(* A pop that takes nothing out of the dict. *)
Mutant_DictWithout(dict, key) == dict

DictWithout(dict, key) == [k \in (DOMAIN dict) \ {key} |-> dict[k]]

DictUpdate(dict, other) ==
    [k \in (DOMAIN dict) \cup (DOMAIN other) |->
        IF k \in DOMAIN other THEN other[k] ELSE dict[k]]

(* __init_subclass__: cls.subclasses[cls.__name__] = cls.  A class is known *)
(* by its name and the class whose __init__ and methods it runs.            *)
InitSubclass(registry, name, impl) ==
    [n \in (DOMAIN registry) \cup {<<name>>} |-> IF n = <<name>> THEN impl ELSE registry[n]]

(* The class statements of the module, in order. *)
ModuleClasses == <<Local, S3>>

RECURSIVE RegistryAfter(_, _)
RegistryAfter(registry, classes) ==
    IF classes = <<>> THEN registry
    ELSE RegistryAfter(InitSubclass(registry, Head(classes), Head(classes)), Tail(classes))

(* The parameters of __init__ after self, and the defaults of those that    *)
(* have one.                                                                *)
InitParams(impl) ==
    IF impl = Local THEN {"base_path"}
    ELSE {"base_path", "bucket_name", "region_name", "access_key", "secret_key",
          "error_table", "dynamodb_table_name", "dynamodb_client_data_table_name"}

InitDefaults(impl) ==
    IF impl = Local THEN EmptyDict
    ELSE [k \in {"error_table", "dynamodb_table_name", "dynamodb_client_data_table_name"}
            |-> None]

(* The class called with a dict as keyword arguments: Python binds the      *)
(* keywords to the parameters, raising TypeError for an unexpected keyword  *)
(* or a missing argument, and __init__ stores each as the attribute of its  *)
(* name.                                                                    *)
Construct(name, impl, kwargs) ==
    IF ~((DOMAIN kwargs) \subseteq InitParams(impl))
        \/ ~(InitParams(impl) \subseteq (DOMAIN kwargs) \cup (DOMAIN InitDefaults(impl)))
    THEN [status |-> "raise", exc |-> "TypeError", obj |-> [cls |-> "", impl |-> "", attrs |-> EmptyDict]]
    ELSE [status |-> "ok", exc |-> "",
          obj |-> [cls |-> name, impl |-> impl,
                   attrs |-> DictUpdate(InitDefaults(impl), kwargs)]]

FileSystem_to_dict(self) ==
    [k \in {"subclass_name", "base_path"} |->
        IF k = "subclass_name" THEN <<self.cls>> ELSE self.attrs["base_path"]]

(* to_dict of S3FileSystem leaving error_table out. *)
Mutant_S3FileSystem_to_dict(self) ==
    DictUpdate(FileSystem_to_dict(self),
               [k \in {"bucket_name", "region_name", "access_key", "secret_key"}
                    |-> self.attrs[k]])

S3FileSystem_to_dict(self) ==
    DictUpdate(FileSystem_to_dict(self),
               [k \in {"bucket_name", "region_name", "access_key", "secret_key", "error_table"}
                    |-> self.attrs[k]])

(* from_dict indexing the registry: subclasses[subclass_name] raises        *)
(* KeyError for a name that is not there.                                   *)
Mutant_FileSystem_from_dict(registry, dict) ==
    LET subclass_name == DictGet(dict, "subclass_name", None)
        popped        == DictWithout(dict, "subclass_name")
    IN  IF subclass_name \in DOMAIN registry
        THEN LET made == Construct(subclass_name[1], registry[subclass_name], popped)
             IN  [status |-> made.status, exc |-> made.exc, obj |-> made.obj, config |-> popped]
        ELSE [status |-> "raise", exc |-> "KeyError",
              obj |-> [cls |-> "", impl |-> "", attrs |-> EmptyDict], config |-> popped]

(* config.pop("subclass_name", None), the lookup, and the construction:     *)
(* the outcome and the dict as the call leaves it.                          *)
FileSystem_from_dict(registry, dict) ==
    LET subclass_name == DictGet(dict, "subclass_name", None)
        popped        == DictWithout(dict, "subclass_name")
    IN  IF subclass_name \in DOMAIN registry
        THEN LET made == Construct(subclass_name[1], registry[subclass_name], popped)
             IN  [status |-> made.status, exc |-> made.exc, obj |-> made.obj, config |-> popped]
        ELSE [status |-> "raise", exc |-> "ValueError",
              obj |-> [cls |-> "", impl |-> "", attrs |-> EmptyDict], config |-> popped]

(* log_error: pass in LocalFileSystem; in S3FileSystem one put_item of the  *)
(* item to the table named by error_table, unless that is None.  The        *)
(* outcome: the table, what became of the put_item request ("none" when    *)
(* none was sent), and whether the call raised.                             *)
LocalFileSystem_log_error(self, items, kb, doc, error, timestamp, accepted) ==
    [table |-> items, put |-> "none", status |-> "ok", exc |-> ""]

(* log_error catching the failure of put_item. *)
Mutant_S3FileSystem_log_error(self, items, kb, doc, error, timestamp, accepted) ==
    IF self.attrs["error_table"] = None
    THEN [table |-> items, put |-> "none", status |-> "ok", exc |-> ""]
    ELSE LET item == [client_id |-> kb, doc_id |-> doc, error |-> error,
                      timestamp |-> timestamp]
         IN  IF accepted
             THEN [table |-> Append(items, [name |-> self.attrs["error_table"], item |-> item]),
                   put |-> "accepted", status |-> "ok", exc |-> ""]
             ELSE [table |-> items, put |-> "rejected", status |-> "ok", exc |-> ""]

S3FileSystem_log_error(self, items, kb, doc, error, timestamp, accepted) ==
    IF self.attrs["error_table"] = None
    THEN [table |-> items, put |-> "none", status |-> "ok", exc |-> ""]
    ELSE LET item == [client_id |-> kb, doc_id |-> doc, error |-> error,
                      timestamp |-> timestamp]
         IN  IF accepted
             THEN [table |-> Append(items, [name |-> self.attrs["error_table"], item |-> item]),
                   put |-> "accepted", status |-> "ok", exc |-> ""]
             ELSE [table |-> items, put |-> "rejected", status |-> "raise",
                   exc |-> "ClientError"]

(* The objects the constructors give for the configuration in use. *)
NewLocalFileSystem(base_path) == Construct(Local, Local, [k \in {"base_path"} |-> base_path]).obj

NewS3FileSystem(base_path, error_table, dynamodb_table_name) ==
    Construct(S3, S3,
              [k \in {"base_path", "bucket_name", "region_name", "access_key", "secret_key",
                      "error_table", "dynamodb_table_name"} |->
                  CASE k = "base_path" -> base_path
                    [] k = "bucket_name" -> <<"bucket">>
                    [] k = "region_name" -> <<"region">>
                    [] k = "access_key" -> <<"ak">>
                    [] k = "secret_key" -> <<"sk">>
                    [] k = "error_table" -> error_table
                    [] OTHER -> dynamodb_table_name]).obj

NoConfig == [held |-> FALSE, dict |-> EmptyDict]

(* The concurrent callers of get_files / get_all_jpg_files on one document  *)
(* ("this function can be called in parallel"): none has begun.            *)
NumCallers == 2

Callers == 1..NumCallers

Idle ==
    [pc |-> "idle", op |-> "", absent |-> FALSE, lost |-> FALSE,
     status |-> "ok", exc |-> "", val |-> None]

NoCall ==
    [op |-> "", fs |-> "", kb |-> <<>>, doc |-> <<>>, name |-> <<>>,
     page_start |-> None, page_end |-> None, status |-> "ok", exc |-> "", val |-> None]

Call(op, fs, kb, doc, name, page_start, page_end, out) ==
    [op |-> op, fs |-> fs, kb |-> kb, doc |-> doc, name |-> name,
     page_start |-> page_start, page_end |-> page_end,
     status |-> out.status, exc |-> out.exc, val |-> out.val]

EmptyMap == [k \in {} |-> None]

Init ==
    /\ backend \in FsNames
    /\ disk = [dirs |-> {LocalBase, S3Base}, files |-> EmptyMap]
    /\ s3 = EmptyMap
    /\ ret = NoCall
    /\ lastJson = EmptyMap
    /\ lastContent = EmptyMap
    /\ fsys = IF backend = Local THEN NewLocalFileSystem(LocalBase)
              ELSE NewS3FileSystem(S3Base, None, None)
    /\ config = NoConfig
    /\ subclasses = RegistryAfter(EmptyDict, ModuleClasses)
    /\ table = <<>>
    /\ callers = [p \in Callers |-> Idle]

(* History bookkeeping: what the calls made so far say was saved last.  A   *)
(* save is live until a create_directory, delete_directory or delete_kb     *)
(* call addresses its document (knowledge base); a write of another kind to *)
(* the same file name removes the entry.                                    *)
Restrict(h, keep(_)) == [k \in {x \in DOMAIN h : keep(x)} |-> h[k]]

Record(h, key, v) == [k \in (DOMAIN h) \cup {key} |-> IF k = key THEN v ELSE h[k]]

ForgetDoc(h, fs, kb, doc) ==
    [k \in DOMAIN h |->
        IF k[1] = fs /\ k[2] = kb /\ k[3] = doc THEN [h[k] EXCEPT !.live = FALSE]
        ELSE h[k]]

ForgetKb(h, fs, kb) ==
    [k \in DOMAIN h |->
        IF k[1] = fs /\ k[2] = kb THEN [h[k] EXCEPT !.live = FALSE] ELSE h[k]]

ForgetJsonFile(h, fs, kb, doc, file_name) ==
    LET keep(k) == k # <<fs, kb, doc, file_name>> IN Restrict(h, keep)

ForgetPageFile(h, fs, kb, doc, file_name) ==
    LET keep(k) == ~(k[1] = fs /\ k[2] = kb /\ k[3] = doc
                     /\ PageContentName(k[4]) = file_name)
    IN  Restrict(h, keep)

Effect(out, call) ==
    /\ UNCHANGED <<backend, fsys, config, subclasses, table, callers>>
    /\ disk' = out.disk
    /\ s3' = out.s3
    /\ ret' = call

CreateDirectory(fs, kb, doc) ==
    LET out == IF fs = Local THEN LocalFileSystem_create_directory(disk, s3, kb, doc)
               ELSE S3FileSystem_create_directory(disk, s3, kb, doc)
    IN  /\ Effect(out, Call("create_directory", fs, kb, doc, <<>>, None, None, out))
        /\ lastJson' = ForgetDoc(lastJson, fs, kb, doc)
        /\ lastContent' = ForgetDoc(lastContent, fs, kb, doc)

DeleteDirectory(fs, kb, doc) ==
    LET out == IF fs = Local THEN LocalFileSystem_delete_directory(disk, s3, kb, doc)
               ELSE S3FileSystem_delete_directory(disk, s3, kb, doc)
    IN  /\ Effect(out, Call("delete_directory", fs, kb, doc, <<>>, None, None, out))
        /\ lastJson' = ForgetDoc(lastJson, fs, kb, doc)
        /\ lastContent' = ForgetDoc(lastContent, fs, kb, doc)

DeleteKb(fs, kb) ==
    LET out == IF fs = Local THEN LocalFileSystem_delete_kb(disk, s3, kb)
               ELSE S3FileSystem_delete_kb(disk, s3, kb)
    IN  /\ Effect(out, Call("delete_kb", fs, kb, <<>>, <<>>, None, None, out))
        /\ lastJson' = ForgetKb(lastJson, fs, kb)
        /\ lastContent' = ForgetKb(lastContent, fs, kb)

SaveJson(fs, kb, doc, file_name, file, accepted) ==
    LET out == IF fs = Local
               THEN LocalFileSystem_save_json(disk, s3, kb, doc, file_name, file, accepted)
               ELSE S3FileSystem_save_json(disk, s3, kb, doc, file_name, file, accepted)
    IN  /\ Effect(out, Call("save_json", fs, kb, doc, file_name, None, None, out))
        /\ lastJson' = IF out.status = "ok"
                       THEN Record(lastJson, <<fs, kb, doc, file_name>>,
                                   [file |-> file, live |-> TRUE,
                                    again |-> /\ <<fs, kb, doc, file_name>> \in DOMAIN lastJson
                                              /\ lastJson[<<fs, kb, doc, file_name>>].live])
                       ELSE lastJson
        /\ lastContent' = IF out.status = "ok"
                          THEN ForgetPageFile(lastContent, fs, kb, doc, file_name)
                          ELSE lastContent

SaveImage(fs, kb, doc, file_name, image, accepted) ==
    LET out == IF fs = Local
               THEN LocalFileSystem_save_image(disk, s3, kb, doc, file_name, image, accepted)
               ELSE S3FileSystem_save_image(disk, s3, kb, doc, file_name, image, accepted)
    IN  /\ Effect(out, Call("save_image", fs, kb, doc, file_name, None, None, out))
        /\ lastJson' = IF out.status = "ok"
                       THEN ForgetJsonFile(lastJson, fs, kb, doc, file_name)
                       ELSE lastJson
        /\ lastContent' = IF out.status = "ok"
                          THEN ForgetPageFile(lastContent, fs, kb, doc, file_name)
                          ELSE lastContent

GetFiles(fs, kb, doc, page_start, page_end) ==
    LET out == IF fs = Local
               THEN LocalFileSystem_get_files(disk, s3, kb, doc, page_start, page_end)
               ELSE S3FileSystem_get_files(disk, s3, kb, doc, page_start, page_end)
    IN  /\ Effect(out, Call("get_files", fs, kb, doc, <<>>, page_start, page_end, out))
        /\ UNCHANGED <<lastJson, lastContent>>

GetAllJpgFiles(fs, kb, doc) ==
    /\ \E out \in (IF fs = Local
                   THEN LocalFileSystem_get_all_jpg_files(disk, s3, kb, doc)
                   ELSE {S3FileSystem_get_all_jpg_files(disk, s3, kb, doc)}) :
            Effect(out, Call("get_all_jpg_files", fs, kb, doc, <<>>, None, None, out))
    /\ UNCHANGED <<lastJson, lastContent>>

SavePageContent(fs, kb, doc, page_number, content, accepted) ==
    LET out == IF fs = Local
               THEN LocalFileSystem_save_page_content(disk, s3, kb, doc, page_number,
                                                      content, accepted)
               ELSE S3FileSystem_save_page_content(disk, s3, kb, doc, page_number,
                                                   content, accepted)
    IN  /\ Effect(out, Call("save_page_content", fs, kb, doc, <<>>, Some(page_number),
                            Some(page_number), out))
        /\ lastContent' = IF out.status = "ok"
                          THEN Record(lastContent, <<fs, kb, doc, page_number>>,
                                      [content |-> content, live |-> TRUE,
                                       again |-> /\ <<fs, kb, doc, page_number>> \in DOMAIN lastContent
                                                 /\ lastContent[<<fs, kb, doc, page_number>>].live])
                          ELSE lastContent
        /\ lastJson' = IF out.status = "ok"
                       THEN ForgetJsonFile(lastJson, fs, kb, doc,
                                           PageContentName(page_number))
                       ELSE lastJson

LoadPageContent(fs, kb, doc, page_number) ==
    LET out == IF fs = Local
               THEN LocalFileSystem_load_page_content(disk, s3, kb, doc, page_number)
               ELSE S3FileSystem_load_page_content(disk, s3, kb, doc, page_number)
    IN  /\ Effect(out, Call("load_page_content", fs, kb, doc, <<>>, Some(page_number),
                            Some(page_number), out))
        /\ UNCHANGED <<lastJson, lastContent>>

LoadPageContentRange(fs, kb, doc, page_start, page_end) ==
    LET out == IF fs = Local
               THEN LocalFileSystem_load_page_content_range(disk, s3, kb, doc,
                                                            page_start, page_end)
               ELSE S3FileSystem_load_page_content_range(disk, s3, kb, doc,
                                                         page_start, page_end)
    IN  /\ Effect(out, Call("load_page_content_range", fs, kb, doc, <<>>, page_start,
                            page_end, out))
        /\ UNCHANGED <<lastJson, lastContent>>

LoadData(fs, kb, doc, data_name) ==
    LET out == IF fs = Local THEN LocalFileSystem_load_data(disk, s3, kb, doc, data_name)
               ELSE S3FileSystem_load_data(disk, s3, kb, doc, data_name)
    IN  /\ Effect(out, Call("load_data", fs, kb, doc, data_name, None, None, out))
        /\ UNCHANGED <<lastJson, lastContent>>

--------------------------------------------------------------------------
(* Inputs. *)
Kb1 == <<"kb", "1">>

Kb10 == <<"kb", "1", "0">>

Doc1 == <<"doc", "1">>

Doc10 == <<"doc", "1", "0">>

JsonSuffix == <<".", "json">>

DataNames == {<<"elements">>, <<"meta">>}

ObjA == JObj(<<"a">>, <<JInt(1)>>)

ObjB ==
    JObj(<<"a", "b">>,
         <<JList(<<JStr("x"), JNull, JInt(1)>>), JObj(<<"c">>, <<JBool(TRUE)>>)>>)

ObjC == JObj(<<>>, <<>>)

JsonObjects == {ObjA, ObjB, ObjC}

--------------------------------------------------------------------------
(* Named JSON blobs of one document, on both backends. *)
NextJson ==
    \/ CreateDirectory(backend, Kb1, Doc1)
    \/ DeleteDirectory(backend, Kb1, Doc1)
    \/ \E name \in DataNames, file \in JsonObjects, accepted \in BOOLEAN :
            SaveJson(backend, Kb1, Doc1, name \o JsonSuffix, file, accepted)
    \/ \E name \in DataNames : LoadData(backend, Kb1, Doc1, name)

SpecJson == Init /\ [][NextJson]_vars

(* C1: load_data(kb, doc, name) returns exactly the object of the most recent *)
(* save_json(kb, doc, name + ".json", obj) that returned since the document   *)
(* was created, on either backend; a later save replaces an earlier one.      *)
C1_JsonRoundTrip ==
    LET key == <<ret.fs, ret.kb, ret.doc, ret.name \o JsonSuffix>>
    IN  (ret.op = "load_data" /\ key \in DOMAIN lastJson /\ lastJson[key].live)
            => (ret.status = "ok" /\ ret.val = Some(lastJson[key].file))

C1_Witness ==
    LET key == <<ret.fs, ret.kb, ret.doc, ret.name \o JsonSuffix>>
    IN  /\ ret.op = "load_data"
        /\ ret.fs = S3
        /\ key \in DOMAIN lastJson
        /\ lastJson[key].live
        /\ lastJson[key].again
        /\ ret.val = Some(ObjB)

--------------------------------------------------------------------------
(* Page images of one document, on both backends. *)
ImageNames ==
    {PageImageName(9, <<".", "jpg">>), PageImageName(9, <<".", "jpeg">>),
     PageImageName(9, <<".", "png">>), PageImageName(10, <<".", "png">>)}

Images == {"imgA"}

PageArgs == {None, Some(8), Some(9), Some(10)}

NextImages ==
    \/ CreateDirectory(backend, Kb1, Doc1)
    \/ DeleteDirectory(backend, Kb1, Doc1)
    \/ \E name \in ImageNames, image \in Images, accepted \in BOOLEAN :
            SaveImage(backend, Kb1, Doc1, name, image, accepted)
    \/ \E page_start \in PageArgs, page_end \in PageArgs :
            GetFiles(backend, Kb1, Doc1, page_start, page_end)
    \/ GetAllJpgFiles(backend, Kb1, Doc1)

SpecImages == Init /\ [][NextImages]_vars

(* What the store of backend fs holds, whatever a read does with it: for    *)
(* the local backend the files under base_path, for S3 the objects of the   *)
(* bucket (never the mirror).                                               *)
Stored(fs, kb, doc, name) ==
    IF fs = Local THEN PathJoin(DocPath(LocalBase, kb, doc), name) \in DOMAIN disk.files
    ELSE ObjectKey(kb, doc, name) \in DOMAIN s3

(* The local path a caller is given for file name of a document. *)
LocalPathOf(fs, kb, doc, name) ==
    PathJoin(DocPath(IF fs = Local THEN LocalBase ELSE S3Base, kb, doc), name)

ExtPreference == <<"jpg", "jpeg", "png">>

PageImage(n, e) == <<"page", "_">> \o IntStr(n) \o <<".", ExtPreference[e]>>

RetPages == Value(ret.page_start)..Value(ret.page_end)

IsGetFilesCall ==
    /\ ret.op = "get_files"
    /\ ret.page_start # None
    /\ ret.page_end # None

(* C2: get_files returns at most one path for each page of the range, and it *)
(* is the path of the first extension, in the order jpg, jpeg, png, under    *)
(* which the page has an image.                                              *)
C2_FirstExtensionOnly ==
    IsGetFilesCall =>
        \A n \in RetPages :
            LET have == {e \in 1..3 : Stored(ret.fs, ret.kb, ret.doc, PageImage(n, e))}
                at   == {i \in 1..Len(ret.val) :
                            \E e \in 1..3 :
                                ret.val[i] = LocalPathOf(ret.fs, ret.kb, ret.doc, PageImage(n, e))}
            IN  /\ Cardinality(at) <= 1
                /\ have # {} =>
                      \E i \in at :
                          ret.val[i] = LocalPathOf(ret.fs, ret.kb, ret.doc,
                                                   PageImage(n, SetMin(have)))

C2_Witness ==
    /\ IsGetFilesCall
    /\ ret.fs = S3
    /\ Stored(S3, Kb1, Doc1, PageImage(9, 2))
    /\ Stored(S3, Kb1, Doc1, PageImage(9, 3))
    /\ ~Stored(S3, Kb1, Doc1, PageImage(9, 1))
    /\ 9 \in RetPages
    /\ Len(ret.val) >= 1
    /\ ret.val[1] = LocalPathOf(S3, Kb1, Doc1, PageImage(9, 2))

(* The page whose image a returned path is (0 when it is none). *)
PageOfPath(path) ==
    IF \E n \in RetPages, e \in 1..3 :
            path = LocalPathOf(ret.fs, ret.kb, ret.doc, PageImage(n, e))
    THEN CHOOSE n \in RetPages :
            \E e \in 1..3 : path = LocalPathOf(ret.fs, ret.kb, ret.doc, PageImage(n, e))
    ELSE 0

(* C3: for integer bounds, get_files returns one path for exactly the pages  *)
(* of [page_start, page_end] that have an image, in strictly increasing      *)
(* page order, and nothing else: the empty list when no page of the range    *)
(* has an image or the range is empty.                                       *)
C3_ExactlyPagesInRange ==
    IsGetFilesCall =>
        LET with == {n \in RetPages :
                        \E e \in 1..3 : Stored(ret.fs, ret.kb, ret.doc, PageImage(n, e))}
        IN  /\ ret.status = "ok"
            /\ Len(ret.val) = Cardinality(with)
            /\ \A i \in 1..Len(ret.val) : PageOfPath(ret.val[i]) \in with
            /\ \A i \in 1..Len(ret.val), j \in 1..Len(ret.val) :
                    i < j => PageOfPath(ret.val[i]) < PageOfPath(ret.val[j])

C3_Witness ==
    /\ IsGetFilesCall
    /\ ret.fs = Local
    /\ ret.page_start = Some(9)
    /\ ret.page_end = Some(10)
    /\ Len(ret.val) = 2
    /\ PageOfPath(ret.val[1]) = 9
    /\ PageOfPath(ret.val[2]) = 10

(* get_files skips a page of the range that has no image. *)
C3_WitnessSkip ==
    /\ IsGetFilesCall
    /\ ret.fs = S3
    /\ ret.page_start = Some(9)
    /\ ret.page_end = Some(10)
    /\ Len(ret.val) = 1
    /\ PageOfPath(ret.val[1]) = 10

PagesInUse == 8..10

StoredPageImages(fs, kb, doc) ==
    {name \in {PageImage(n, e) : n \in PagesInUse, e \in 1..3} :
        Stored(fs, kb, doc, name)}

(* The page number in the file name of a returned path. *)
PageNumberOf(fs, kb, doc, path) ==
    CHOOSE n \in PagesInUse :
        \E e \in 1..3 : path = LocalPathOf(fs, kb, doc, PageImage(n, e))

(* C4: for a document that holds page images, get_all_jpg_files returns the *)
(* path of every page image stored, whatever its extension and however many *)
(* assets the document holds, sorted ascending by page number.              *)
C4_AllPageImagesSorted ==
    (ret.op = "get_all_jpg_files" /\ StoredPageImages(ret.fs, ret.kb, ret.doc) # {})
        => /\ ret.status = "ok"
           /\ {ret.val[i] : i \in 1..Len(ret.val)}
                = {LocalPathOf(ret.fs, ret.kb, ret.doc, name) :
                        name \in StoredPageImages(ret.fs, ret.kb, ret.doc)}
           /\ \A i \in 1..Len(ret.val), j \in 1..Len(ret.val) :
                i < j => PageNumberOf(ret.fs, ret.kb, ret.doc, ret.val[i])
                            <= PageNumberOf(ret.fs, ret.kb, ret.doc, ret.val[j])

(* The same on a document that holds no more objects than one listing       *)
(* response carries (every document of the local backend).                  *)
C4_WithinOneListing ==
    (ret.fs = S3 /\ Cardinality(KeysWithPrefix(s3, DocPrefix(ret.kb, ret.doc))) > ListMaxKeys)
        \/ C4_AllPageImagesSorted

--------------------------------------------------------------------------
(* What each read addresses, and whether the store holds any of it. *)
ReadOps ==
    {"get_files", "get_all_jpg_files", "load_page_content", "load_page_content_range",
     "load_data"}

ReadTargetMissing ==
    CASE ret.op = "get_files" ->
            /\ ret.page_start # None
            /\ ret.page_end # None
            /\ \A n \in RetPages, e \in 1..3 :
                    ~Stored(ret.fs, ret.kb, ret.doc, PageImage(n, e))
      [] ret.op = "get_all_jpg_files" -> StoredPageImages(ret.fs, ret.kb, ret.doc) = {}
      [] ret.op = "load_page_content" ->
            ~Stored(ret.fs, ret.kb, ret.doc, PageContentName(Value(ret.page_start)))
      [] ret.op = "load_page_content_range" ->
            /\ ret.page_start # None
            /\ ret.page_end # None
            /\ \A n \in RetPages : ~Stored(ret.fs, ret.kb, ret.doc, PageContentName(n))
      [] ret.op = "load_data" -> ~Stored(ret.fs, ret.kb, ret.doc, ret.name \o JsonSuffix)
      [] OTHER -> FALSE

(* C10: a read whose file, object, page or document does not exist returns  *)
(* an absent or empty result and does not raise, on either backend, also    *)
(* for a document that create_directory was never called for.               *)
C10_ReadsOfMissingNeverRaise ==
    (ret.op \in ReadOps /\ ReadTargetMissing)
        => (ret.status = "ok" /\ ret.val \in {None, <<>>})

(* The reads that keep the claim: all but get_all_jpg_files of the local    *)
(* backend on a document directory that does not exist.                     *)
C10_ExceptLocalListing ==
    (ret.op = "get_all_jpg_files" /\ ret.fs = Local
        /\ ~PathExists(disk, DocPath(LocalBase, ret.kb, ret.doc)))
    \/ C10_ReadsOfMissingNeverRaise

--------------------------------------------------------------------------
(* Page contents of one document, on both backends. *)
ContentPages == 1..3

Contents == {"hello", "bye"}

NextContent ==
    \/ CreateDirectory(backend, Kb1, Doc1)
    \/ DeleteDirectory(backend, Kb1, Doc1)
    \/ \E page_number \in ContentPages, content \in Contents, accepted \in BOOLEAN :
            SavePageContent(backend, Kb1, Doc1, page_number, content, accepted)
    \/ \E page_number \in ContentPages : LoadPageContent(backend, Kb1, Doc1, page_number)
    \/ \E page_start \in ContentPages, page_end \in ContentPages :
            LoadPageContentRange(backend, Kb1, Doc1, Some(page_start), Some(page_end))

SpecContent == Init /\ [][NextContent]_vars

RetPageKey == <<ret.fs, ret.kb, ret.doc, Value(ret.page_start)>>

(* C8: load_page_content returns, without raising, the string of the most   *)
(* recent save_page_content of the page that returned since the document    *)
(* was created, on either backend, and None for a page the store holds no   *)
(* content for: one never written, or one whose content was removed.        *)
C8_LastSavedOrAbsent ==
    ret.op = "load_page_content" =>
        /\ ret.status = "ok"
        /\ (RetPageKey \in DOMAIN lastContent /\ lastContent[RetPageKey].live)
                => ret.val = Some(JStr(lastContent[RetPageKey].content))
        /\ ~Stored(ret.fs, ret.kb, ret.doc, PageContentName(Value(ret.page_start)))
                => ret.val = None

(* A page saved twice is loaded with the second string. *)
C8_Witness ==
    /\ ret.op = "load_page_content"
    /\ ret.fs = S3
    /\ RetPageKey \in DOMAIN lastContent
    /\ lastContent[RetPageKey].live
    /\ lastContent[RetPageKey].again
    /\ ret.val = Some(JStr("bye"))

(* A page saved and then removed with its document is loaded as None. *)
C8_WitnessDeleted ==
    /\ ret.op = "load_page_content"
    /\ ret.fs = Local
    /\ RetPageKey \in DOMAIN lastContent
    /\ ~lastContent[RetPageKey].live
    /\ ret.val = None

(* The pages of the range of the last call that the store holds content for. *)
RetPagesWithContent ==
    {n \in RetPages : Stored(ret.fs, ret.kb, ret.doc, PageContentName(n))}

(* The i-th smallest element of a set of numbers. *)
NthSmallest(S, i) == CHOOSE n \in S : Cardinality({m \in S : m < n}) = i - 1

(* C9: for integer bounds, load_page_content_range returns the contents of  *)
(* exactly the pages of [page_start, page_end] that have stored content, in *)
(* ascending page order, with no entry for a page that has none.            *)
C9_RangeSkipsMissing ==
    (ret.op = "load_page_content_range" /\ ret.page_start # None /\ ret.page_end # None)
        => /\ ret.status = "ok"
           /\ Len(ret.val) = Cardinality(RetPagesWithContent)
           /\ \A i \in 1..Len(ret.val) :
                LET key == <<ret.fs, ret.kb, ret.doc, NthSmallest(RetPagesWithContent, i)>>
                IN  /\ key \in DOMAIN lastContent
                    /\ ret.val[i] = JStr(lastContent[key].content)

(* Content on pages 1 and 3 only, range 1..3. *)
C9_Witness ==
    /\ ret.op = "load_page_content_range"
    /\ ret.fs = Local
    /\ ret.page_start = Some(1)
    /\ ret.page_end = Some(3)
    /\ RetPagesWithContent = {1, 3}
    /\ ret.val = <<JStr("hello"), JStr("bye")>>

--------------------------------------------------------------------------
(* Deletion of documents and knowledge bases: one document with more       *)
(* assets than one listing response carries, one with one asset in the     *)
(* same knowledge base, and one that is never created.                      *)
BigDocPages == 1..3

BigDocImage == PageImageName(1, <<".", "jpg">>)

SmallDocs == {<<Kb1, Doc10>>}

CreatedDocs == {<<Kb1, Doc1>>} \cup SmallDocs

AllDocs == CreatedDocs \cup {<<Kb10, Doc10>>}

NextDelete ==
    \/ \E kd \in CreatedDocs : CreateDirectory(backend, kd[1], kd[2])
    \/ \E kd \in AllDocs : DeleteDirectory(backend, kd[1], kd[2])
    \/ \E kb \in {Kb1, Kb10} : DeleteKb(backend, kb)
    \/ \E page_number \in BigDocPages :
            SavePageContent(backend, Kb1, Doc1, page_number, "hello", TRUE)
    \/ \E kd \in SmallDocs : SavePageContent(backend, kd[1], kd[2], 1, "hello", TRUE)
    \/ SaveImage(backend, Kb1, Doc1, BigDocImage, "imgA", TRUE)

SpecDelete == Init /\ [][NextDelete]_vars

(* The assets the store of backend fs holds in state (d, store): the files  *)
(* under base_path, or the keys of the bucket.                              *)
Assets(fs, d, store) ==
    IF fs = Local THEN {p \in DOMAIN d.files : IsPrefix(LocalBase, p)}
    ELSE DOMAIN store

AssetsOfDoc(fs, d, store, kb, doc) ==
    IF fs = Local
    THEN {p \in DOMAIN d.files : IsPrefix(DocPath(LocalBase, kb, doc) \o <<"/">>, p)}
    ELSE {k \in DOMAIN store : IsPrefix(DocPrefix(kb, doc), k)}

AssetsOfKb(fs, d, store, kb) ==
    IF fs = Local
    THEN {p \in DOMAIN d.files : IsPrefix(PathJoin(LocalBase, kb) \o <<"/">>, p)}
    ELSE {k \in DOMAIN store : IsPrefix(KbPrefix(kb), k)}

DeleteDirectoryOf(fs, d, store, kb, doc) ==
    IF fs = Local THEN LocalFileSystem_delete_directory(d, store, kb, doc)
    ELSE S3FileSystem_delete_directory(d, store, kb, doc)

(* The reads of a document in the current state. *)
GetFilesNow(fs, kb, doc, page_start, page_end) ==
    IF fs = Local
    THEN LocalFileSystem_get_files(disk, s3, kb, doc, Some(page_start), Some(page_end))
    ELSE S3FileSystem_get_files(disk, s3, kb, doc, Some(page_start), Some(page_end))

GetAllJpgFilesNow(fs, kb, doc) ==
    IF fs = Local THEN LocalFileSystem_get_all_jpg_files(disk, s3, kb, doc)
    ELSE {S3FileSystem_get_all_jpg_files(disk, s3, kb, doc)}

LoadPageContentNow(fs, kb, doc, page_number) ==
    IF fs = Local THEN LocalFileSystem_load_page_content(disk, s3, kb, doc, page_number)
    ELSE S3FileSystem_load_page_content(disk, s3, kb, doc, page_number)

LoadDataNow(fs, kb, doc, data_name) ==
    IF fs = Local THEN LocalFileSystem_load_data(disk, s3, kb, doc, data_name)
    ELSE S3FileSystem_load_data(disk, s3, kb, doc, data_name)

(* A read that hands the caller no path (a raise hands none either). *)
NoPath(out) == out.status = "ok" => out.val = <<>>

(* C5: delete_directory on a document that does not exist, or called again  *)
(* right after a delete_directory of the same document returned, returns    *)
(* without error, changes nothing in the store and reports no removed item  *)
(* (the None of the local backend counted as none), on both backends.       *)
C5_DeleteIdempotent ==
    [][ (/\ ret'.op = "delete_directory"
         /\ \/ AssetsOfDoc(ret'.fs, disk, s3, ret'.kb, ret'.doc) = {}
            \/ /\ ret.op = "delete_directory"
               /\ ret.status = "ok"
               /\ <<ret.fs, ret.kb, ret.doc>> = <<ret'.fs, ret'.kb, ret'.doc>>)
        => /\ ret'.status = "ok"
           /\ Assets(ret'.fs, disk', s3') = Assets(ret'.fs, disk, s3)
           /\ ret'.val \in {None, <<>>} ]_vars

(* C5 with the value of the claim: the empty collection of removed items. *)
C5_ReturnsEmptySet ==
    [][ (ret'.op = "delete_directory"
            /\ AssetsOfDoc(ret'.fs, disk, s3, ret'.kb, ret'.doc) = {})
        => ret'.val = <<>> ]_vars

(* C6: after delete_directory(kb, doc) returns, the store holds no asset of *)
(* the document, however many it held: get_files and get_all_jpg_files give *)
(* no path, load_page_content and load_data give None for every page and    *)
(* name.                                                                    *)
C6_NoAssetRemains ==
    (ret.op = "delete_directory" /\ ret.status = "ok")
        => /\ AssetsOfDoc(ret.fs, disk, s3, ret.kb, ret.doc) = {}
           /\ NoPath(GetFilesNow(ret.fs, ret.kb, ret.doc, 1, 3))
           /\ \A out \in GetAllJpgFilesNow(ret.fs, ret.kb, ret.doc) : NoPath(out)
           /\ \A n \in BigDocPages :
                LoadPageContentNow(ret.fs, ret.kb, ret.doc, n).val = None
           /\ \A name \in DataNames : LoadDataNow(ret.fs, ret.kb, ret.doc, name).val = None

(* The same for a document that held no more objects than one listing       *)
(* response carries when it was deleted.                                    *)
C6_WithinOneListing ==
    [][ (ret'.op = "delete_directory" /\ ret'.status = "ok"
            /\ (ret'.fs = S3 =>
                    Cardinality(AssetsOfDoc(S3, disk, s3, ret'.kb, ret'.doc)) <= ListMaxKeys))
        => AssetsOfDoc(ret'.fs, disk', s3', ret'.kb, ret'.doc) = {} ]_vars

(* delete_directory(kb, d) for every document d of a sequence, in turn. *)
RECURSIVE DeleteEvery(_, _, _, _, _)
DeleteEvery(fs, d, store, kb, docs) ==
    IF docs = <<>> THEN Returns(d, store, None)
    ELSE LET out == DeleteDirectoryOf(fs, d, store, kb, Head(docs))
         IN  IF out.status = "raise" THEN out
             ELSE DeleteEvery(fs, out.disk, out.s3, kb, Tail(docs))

(* C7: what remains after delete_kb(kb) is what remains after               *)
(* delete_directory(kb, d) for every document d of kb, and no asset of any  *)
(* document of kb is part of it.                                            *)
C7_DeleteKbAsIteratedDelete ==
    [][ (ret'.op = "delete_kb" /\ ret'.status = "ok")
        => LET each == DeleteEvery(ret'.fs, disk, s3, ret'.kb, <<Doc1, Doc10>>)
           IN  /\ each.status = "ok"
               /\ Assets(ret'.fs, disk', s3') = Assets(ret'.fs, each.disk, each.s3)
               /\ AssetsOfKb(ret'.fs, disk', s3', ret'.kb) = {} ]_vars

(* The same for a knowledge base that held no more objects than one listing *)
(* response carries.                                                        *)
C7_WithinOneListing ==
    [][ (ret'.op = "delete_kb" /\ ret'.status = "ok"
            /\ (ret'.fs = S3 =>
                    Cardinality(AssetsOfKb(S3, disk, s3, ret'.kb)) <= ListMaxKeys))
        => LET each == DeleteEvery(ret'.fs, disk, s3, ret'.kb, <<Doc1, Doc10>>)
           IN  /\ each.status = "ok"
               /\ Assets(ret'.fs, disk', s3') = Assets(ret'.fs, each.disk, each.s3)
               /\ AssetsOfKb(ret'.fs, disk', s3', ret'.kb) = {} ]_vars

--------------------------------------------------------------------------
(* Named JSON blobs whose stored content need not be what save_json wrote.  *)
(* The store is shared: base_path is a directory of the host, the bucket is *)
(* an account's, and load_data has handlers for content no save_json        *)
(* produces.  ForeignWrite is another writer of the store leaving content   *)
(* under the name of a blob.                                                *)
TruncatedJson == SubSeq(JsonDumps(ObjA, 2), 1, 3)

NotUtf8 == ImageBytes("imgA", "JPEG")

MalformedContents == {<<>>, TruncatedJson, <<StrTok("a"), Tok(":")>>}

ForeignContents == MalformedContents \cup {NotUtf8, JsonDumps(ObjB, 0), JsonDumps(JNull, 0)}

ForeignWrite(fs, kb, doc, file_name, content) ==
    LET file_path == PathJoin(DocPath(LocalBase, kb, doc), file_name)
    IN  /\ fs = Local => CanWriteFile(disk, file_path)
        /\ UNCHANGED <<backend, fsys, config, subclasses, table, callers>>
        /\ disk' = IF fs = Local THEN WriteFile(disk, file_path, content) ELSE disk
        /\ s3' = IF fs = S3 THEN PutObject(s3, ObjectKey(kb, doc, file_name), content) ELSE s3
        /\ ret' = NoCall
        /\ lastJson' = ForgetJsonFile(lastJson, fs, kb, doc, file_name)
        /\ lastContent' = ForgetPageFile(lastContent, fs, kb, doc, file_name)

MetaJson == <<"meta">> \o JsonSuffix

NextLoadData ==
    \/ CreateDirectory(backend, Kb1, Doc1)
    \/ DeleteDirectory(backend, Kb1, Doc1)
    \/ \E file \in {ObjA, ObjC} : SaveJson(backend, Kb1, Doc1, MetaJson, file, TRUE)
    \/ SaveImage(backend, Kb1, Doc1, MetaJson, "imgA", TRUE)
    \/ \E content \in ForeignContents : ForeignWrite(backend, Kb1, Doc1, MetaJson, content)
    \/ \E name \in DataNames : LoadData(backend, Kb1, Doc1, name)

SpecLoadData == Init /\ [][NextLoadData]_vars

(* What the store of backend fs holds under a file name of a document. *)
StoredContent(fs, kb, doc, name) ==
    IF fs = Local THEN disk.files[PathJoin(DocPath(LocalBase, kb, doc), name)]
    ELSE s3[ObjectKey(kb, doc, name)]

RetDataFile == ret.name \o JsonSuffix

(* C11: load_data never raises.  It returns None when the blob is missing   *)
(* and when what is stored under its name is not valid JSON (broken JSON    *)
(* text, or bytes that are no text at all), and the parsed object when the  *)
(* stored content is the JSON text of an object, on both backends.          *)
C11_LoadDataNeverRaises ==
    ret.op = "load_data" =>
        /\ ret.status = "ok"
        /\ ~Stored(ret.fs, ret.kb, ret.doc, RetDataFile) => ret.val = None
        /\ Stored(ret.fs, ret.kb, ret.doc, RetDataFile) =>
             LET content == StoredContent(ret.fs, ret.kb, ret.doc, RetDataFile)
             IN  /\ content \in MalformedContents \cup {NotUtf8} => ret.val = None
                 /\ \A obj \in JsonObjects, indent \in {0, 2} :
                        content = JsonDumps(obj, indent) => ret.val = Some(obj)

(* The same for stored content that is text: a missing blob and broken JSON *)
(* text give None, the JSON text of an object gives the object, and         *)
(* nothing is raised.                                                       *)
C11_TextNeverRaises ==
    (/\ ret.op = "load_data"
     /\ Stored(ret.fs, ret.kb, ret.doc, RetDataFile)
     /\ ret.fs = Local
     /\ StoredContent(ret.fs, ret.kb, ret.doc, RetDataFile) = NotUtf8)
    \/ C11_LoadDataNeverRaises

--------------------------------------------------------------------------
(* Descriptors: to_dict, from_dict and the registry of backend classes. *)
ToDict ==
    /\ config' = [held |-> TRUE,
                  dict |-> IF fsys.impl = S3 THEN S3FileSystem_to_dict(fsys)
                           ELSE FileSystem_to_dict(fsys)]
    /\ ret' = [NoCall EXCEPT !.op = "to_dict", !.fs = fsys.cls]
    /\ UNCHANGED <<backend, disk, s3, lastJson, lastContent, fsys, subclasses, table, callers>>

FromDict ==
    LET out == FileSystem_from_dict(subclasses, config.dict)
    IN  /\ config.held
        /\ config' = [held |-> TRUE, dict |-> out.config]
        /\ fsys' = IF out.status = "ok" THEN out.obj ELSE fsys
        /\ backend' = fsys'.impl
        /\ ret' = [NoCall EXCEPT !.op = "from_dict",
                                 !.fs = IF out.status = "ok" THEN out.obj.cls ELSE "",
                                 !.status = out.status, !.exc = out.exc]
        /\ UNCHANGED <<disk, s3, lastJson, lastContent, subclasses, table, callers>>

(* The caller writes a descriptor by hand (or reads one from a stored       *)
(* configuration).                                                          *)
MakeConfig(dict) ==
    /\ config' = [held |-> TRUE, dict |-> dict]
    /\ ret' = NoCall
    /\ UNCHANGED <<backend, disk, s3, lastJson, lastContent, fsys, subclasses, table, callers>>

(* A class statement: class name(impl), inheriting __init__ and the methods. *)
DefineSubclass(name, impl) ==
    /\ subclasses' = InitSubclass(subclasses, name, impl)
    /\ ret' = [NoCall EXCEPT !.op = "class", !.fs = name]
    /\ UNCHANGED <<backend, disk, s3, lastJson, lastContent, fsys, config, table, callers>>

OtherBase == <<"data", "/", "kb">>

ErrorTable == <<"errors">>

FsObjects ==
    {NewLocalFileSystem(LocalBase), NewLocalFileSystem(OtherBase),
     NewS3FileSystem(S3Base, None, None), NewS3FileSystem(S3Base, ErrorTable, None),
     NewS3FileSystem(OtherBase, ErrorTable, <<"docs">>)}

UserClass == "MyFileSystem"

DictOf(subclass_name, base_path) ==
    [k \in {"subclass_name", "base_path"} |->
        IF k = "subclass_name" THEN subclass_name ELSE base_path]

Descriptors ==
    {EmptyDict,
     DictWithout(DictOf(None, LocalBase), "subclass_name"),
     DictOf(<<"AzureFileSystem">>, LocalBase),
     DictOf(<<"FileSystem">>, LocalBase),
     DictOf(<<"localfilesystem">>, LocalBase),
     DictOf(<<UserClass>>, LocalBase),
     DictOf(<<Local>>, OtherBase),
     DictOf(<<S3>>, S3Base),
     DictUpdate(DictOf(<<Local>>, LocalBase), [k \in {"bucket_name"} |-> <<"bucket">>])}

InitDescriptor ==
    /\ fsys \in FsObjects
    /\ backend = fsys.impl
    /\ disk = [dirs |-> {LocalBase, S3Base}, files |-> EmptyMap]
    /\ s3 = EmptyMap
    /\ ret = NoCall
    /\ lastJson = EmptyMap
    /\ lastContent = EmptyMap
    /\ config = NoConfig
    /\ subclasses = RegistryAfter(EmptyDict, ModuleClasses)
    /\ table = <<>>
    /\ callers = [p \in Callers |-> Idle]

NextDescriptor ==
    \/ ToDict
    \/ FromDict
    \/ \E dict \in Descriptors : MakeConfig(dict)
    \/ DefineSubclass(UserClass, Local)

SpecDescriptor == InitDescriptor /\ [][NextDescriptor]_vars

(* The attributes that decide where a backend reads and writes: every       *)
(* method uses base_path, and those of S3FileSystem the bucket, the region  *)
(* and the keys of the client, and error_table in log_error.                *)
LocationAttrs(impl) ==
    IF impl = Local THEN {"base_path"}
    ELSE {"base_path", "bucket_name", "region_name", "access_key", "secret_key", "error_table"}

(* C12: from_dict(to_dict(b)) returns a backend of the class of b with the  *)
(* base path of b and, for S3FileSystem, its bucket, region, credentials    *)
(* and error table.                                                         *)
C12_DescriptorRoundTrip ==
    [][ (ret.op = "to_dict" /\ ret'.op = "from_dict")
        => /\ ret'.status = "ok"
           /\ fsys'.cls = fsys.cls
           /\ fsys'.impl = fsys.impl
           /\ \A k \in LocationAttrs(fsys.impl) : fsys'.attrs[k] = fsys.attrs[k] ]_vars

(* A remote backend with an error table, rebuilt from its own descriptor. *)
C12_Witness ==
    /\ ret.op = "from_dict"
    /\ ret.status = "ok"
    /\ fsys.cls = S3
    /\ fsys.attrs["error_table"] = ErrorTable
    /\ fsys.attrs["base_path"] = OtherBase
    /\ config.dict = DictWithout(S3FileSystem_to_dict(fsys), "subclass_name")

(* C13: from_dict on a descriptor without subclass_name, or naming a class  *)
(* that is not in the registry, raises ValueError and constructs no         *)
(* backend; every class defined is in the registry from then on and a      *)
(* descriptor naming it gives a backend of that class.                      *)
C13_UnknownBackendRaises ==
    [][ /\ \A n \in {<<Local>>, <<S3>>} \cup DOMAIN subclasses : n \in DOMAIN subclasses'
        /\ ret'.op = "class" => <<ret'.fs>> \in DOMAIN subclasses'
        /\ ret'.op = "from_dict" =>
             LET subclass_name == DictGet(config.dict, "subclass_name", None)
                 defined == {<<Local>>, <<S3>>} \cup DOMAIN subclasses
             IN  /\ subclass_name \notin defined
                        => (ret'.status = "raise" /\ ret'.exc = "ValueError" /\ fsys' = fsys)
                 /\ (subclass_name \in defined /\ ret'.status = "ok")
                        => fsys'.cls = subclass_name[1] ]_vars

(* A descriptor naming a class that was never defined is refused. *)
C13_Witness ==
    /\ ret.op = "from_dict"
    /\ ret.status = "raise"
    /\ ret.exc = "ValueError"
    /\ config.dict = DictWithout(DictOf(<<"AzureFileSystem">>, LocalBase), "subclass_name")

(* A class defined after the module was loaded is found by its name. *)
C13_WitnessUserClass ==
    /\ ret.op = "from_dict"
    /\ ret.status = "ok"
    /\ fsys.cls = UserClass

--------------------------------------------------------------------------
(* Error records. *)
MaxErrors == 2

Errors == {"E1", "E2"}

Timestamps == {"t1", "t2"}

LogError(kb, doc, error, timestamp, accepted) ==
    LET out == IF fsys.impl = Local
               THEN LocalFileSystem_log_error(fsys, table, kb, doc, error, timestamp, accepted)
               ELSE S3FileSystem_log_error(fsys, table, kb, doc, error, timestamp, accepted)
    IN  /\ Len(table) < MaxErrors
        /\ table' = out.table
        /\ ret' = [op |-> "log_error", fs |-> fsys.cls, kb |-> kb, doc |-> doc,
                   error |-> error, timestamp |-> timestamp, put |-> out.put,
                   status |-> out.status, exc |-> out.exc, val |-> None]
        /\ UNCHANGED <<backend, disk, s3, lastJson, lastContent, fsys, config, subclasses, callers>>

NextLogError ==
    \E doc \in {Doc1, Doc10}, error \in Errors, timestamp \in Timestamps,
       accepted \in BOOLEAN :
        LogError(Kb1, doc, error, timestamp, accepted)

SpecLogError == InitDescriptor /\ [][NextLogError]_vars

NoErrorTable == fsys.impl = Local \/ fsys.attrs["error_table"] = None

(* C14: log_error without an error table (LocalFileSystem, or S3FileSystem  *)
(* with error_table None) returns, sends no request and changes nothing;    *)
(* with an error table it puts exactly one item {client_id, doc_id, error,  *)
(* timestamp} to that table, and raises when the put fails.                 *)
C14_LogError ==
    [][ ret'.op = "log_error" =>
          IF NoErrorTable
          THEN /\ ret'.status = "ok"
               /\ ret'.put = "none"
               /\ UNCHANGED <<disk, s3, table, fsys>>
          ELSE /\ ret'.put # "none"
               /\ ret'.put = "rejected" => (ret'.status = "raise" /\ table' = table)
               /\ ret'.put = "accepted" =>
                    /\ ret'.status = "ok"
                    /\ table' = Append(table,
                                       [name |-> fsys.attrs["error_table"],
                                        item |-> [client_id |-> ret'.kb,
                                                  doc_id |-> ret'.doc,
                                                  error |-> ret'.error,
                                                  timestamp |-> ret'.timestamp]]) ]_vars

(* A put that failed, after one that was accepted. *)
C14_Witness ==
    /\ ret.op = "log_error"
    /\ ret.put = "rejected"
    /\ ret.status = "raise"
    /\ Len(table) = 1

(* A call without an error table. *)
C14_WitnessNoTable ==
    /\ ret.op = "log_error"
    /\ fsys.impl = S3
    /\ ret.put = "none"

--------------------------------------------------------------------------
(* C15: LocalFileSystem.create_directory on a document directory that       *)
(* exists returns with the directory in place and empty: no file written    *)
(* before the call is left in it.                                           *)
C15_CreateDirectoryFreshStart ==
    [][ (/\ ret'.op = "create_directory"
         /\ ret'.fs = Local
         /\ PathExists(disk, DocPath(LocalBase, ret'.kb, ret'.doc)))
        => /\ ret'.status = "ok"
           /\ IsDir(disk', DocPath(LocalBase, ret'.kb, ret'.doc))
           /\ ListDir(disk', DocPath(LocalBase, ret'.kb, ret'.doc)) = {}
           /\ AssetsOfDoc(Local, disk', s3', ret'.kb, ret'.doc) = {} ]_vars

(* create_directory has returned for a document a blob was saved to, and    *)
(* the blob is gone.                                                        *)
C15_Witness ==
    /\ ret.op = "create_directory"
    /\ ret.fs = Local
    /\ ret.status = "ok"
    /\ \E key \in DOMAIN lastJson :
            /\ <<key[1], key[2], key[3]>> = <<Local, ret.kb, ret.doc>>
            /\ ~lastJson[key].live
            /\ ~Stored(Local, ret.kb, ret.doc, key[4])
    /\ IsDir(disk, DocPath(LocalBase, ret.kb, ret.doc))

--------------------------------------------------------------------------
(* The three writes of one document, each accepted or rejected by the store. *)
SavedImage == PageImageName(9, <<".", "jpg">>)

NextSave ==
    \/ CreateDirectory(backend, Kb1, Doc1)
    \/ DeleteDirectory(backend, Kb1, Doc1)
    \/ \E file \in {ObjA, ObjB}, accepted \in BOOLEAN :
            SaveJson(backend, Kb1, Doc1, MetaJson, file, accepted)
    \/ \E accepted \in BOOLEAN : SaveImage(backend, Kb1, Doc1, SavedImage, "imgA", accepted)
    \/ \E content \in Contents, accepted \in BOOLEAN :
            SavePageContent(backend, Kb1, Doc1, 1, content, accepted)

SpecSave == Init /\ [][NextSave]_vars

SaveOps == {"save_json", "save_image", "save_page_content"}

(* The exceptions a failed write reaches the caller as: RuntimeError raised *)
(* from the cause by S3FileSystem, the OSError of open itself by            *)
(* LocalFileSystem.                                                         *)
WriteErrors(fs) ==
    IF fs = S3 THEN {"RuntimeError"} ELSE {"OSError", "FileNotFoundError", "IsADirectoryError"}

(* Whether state (d, store) holds content under a file name of a document, *)
(* for backend fs.                                                          *)
HoldsContent(fs, d, store, kb, doc, name, content) ==
    IF fs = Local
    THEN LET p == PathJoin(DocPath(LocalBase, kb, doc), name)
         IN  p \in DOMAIN d.files /\ d.files[p] = content
    ELSE LET k == ObjectKey(kb, doc, name)
         IN  k \in DOMAIN store /\ store[k] = content

--------------------------------------------------------------------------
(* Concurrent readers of one document on the S3 backend.  A call is cut at  *)
(* the points where another caller can act between two file-system calls:   *)
(* the os.path.exists test, the os.mkdir of the missing ancestors and the   *)
(* os.mkdir of the mirror directory inside os.makedirs, and the downloads.  *)

(* os.mkdir(p) *)
Mkdir(d, p) ==
    IF PathExists(d, p) THEN [disk |-> d, status |-> "raise", exc |-> "FileExistsError"]
    ELSE IF ~IsDir(d, Parent(p))
         THEN [disk |-> d, status |-> "raise", exc |-> "FileNotFoundError"]
    ELSE [disk |-> [d EXCEPT !.dirs = @ \cup {Norm(p)}], status |-> "ok", exc |-> ""]

(* os.makedirs(p), first half: a missing head is made, and a head that      *)
(* another caller made meanwhile is passed over.                            *)
MakeHead(d, p) == IF PathExists(d, Parent(p)) THEN d ELSE MakeDirs(d, Parent(p))

(* os.makedirs(output_folder) with the FileExistsError left to the caller. *)
Mutant_S3GetFilesMakedirs(d, output_folder) == Mkdir(d, output_folder)

(* get_files: "try: os.makedirs(output_folder) / except FileExistsError:    *)
(* pass".  exc keeps the error that was passed over.                        *)
S3GetFilesMakedirs(d, output_folder) ==
    LET made == Mkdir(d, output_folder)
    IN  IF made.exc = "FileExistsError" THEN [made EXCEPT !.status = "ok"] ELSE made

(* get_all_jpg_files: os.makedirs(output_folder, exist_ok=True), which      *)
(* raises the error of os.mkdir only when the path is not a directory.      *)
S3GetAllMakedirs(d, output_folder) ==
    LET made == Mkdir(d, output_folder)
    IN  IF made.status = "raise" /\ IsDir(d, output_folder)
        THEN [made EXCEPT !.status = "ok"]
        ELSE made

RacePages == <<9, 10>>

RaceNames == {PageImageName(9, <<".", "jpg">>), PageImageName(10, <<".", "png">>)}

RaceFolder == DocPath(S3Base, Kb1, Doc1)

NoneBegun == \A p \in Callers : callers[p].pc = "idle"

CallerMoves(p, rec) ==
    /\ callers' = [callers EXCEPT ![p] = rec]
    /\ UNCHANGED <<backend, s3, ret, lastJson, lastContent, fsys, config, subclasses, table>>

(* The call begins.  get_all_jpg_files lists the objects first and returns  *)
(* [] when there is none; get_files goes to its os.path.exists test.        *)
Begin(p, op) ==
    /\ backend = S3
    /\ callers[p].pc = "idle"
    /\ UNCHANGED disk
    /\ IF op = "get_files"
       THEN CallerMoves(p, [callers[p] EXCEPT !.op = op, !.pc = "exists"])
       ELSE IF ListObjectsV2(s3, DocPrefix(Kb1, Doc1)) = <<>>
            THEN CallerMoves(p, [callers[p] EXCEPT !.op = op, !.pc = "done", !.val = <<>>])
       ELSE CallerMoves(p, [callers[p] EXCEPT !.op = op, !.pc = "head"])

(* "if not os.path.exists(output_folder)" *)
TestExists(p) ==
    /\ callers[p].pc = "exists"
    /\ UNCHANGED disk
    /\ IF PathExists(disk, RaceFolder)
       THEN CallerMoves(p, [callers[p] EXCEPT !.pc = "download"])
       ELSE CallerMoves(p, [callers[p] EXCEPT !.pc = "head", !.absent = TRUE])

MakedirsHead(p) ==
    /\ callers[p].pc = "head"
    /\ disk' = MakeHead(disk, RaceFolder)
    /\ CallerMoves(p, [callers[p] EXCEPT !.pc = "leaf"])

(* The os.mkdir of the mirror directory and what the caller does with its   *)
(* error: get_files lets any error but FileExistsError out, and             *)
(* get_all_jpg_files returns [] from its outer "except Exception".          *)
MakedirsLeaf(p) ==
    /\ callers[p].pc = "leaf"
    /\ LET made == IF callers[p].op = "get_files"
                   THEN S3GetFilesMakedirs(disk, RaceFolder)
                   ELSE S3GetAllMakedirs(disk, RaceFolder)
       IN  /\ disk' = made.disk
           /\ IF made.status = "ok"
              THEN CallerMoves(p, [callers[p] EXCEPT
                                      !.pc = "download",
                                      !.lost = (made.exc = "FileExistsError")])
              ELSE IF callers[p].op = "get_files"
                   THEN CallerMoves(p, [callers[p] EXCEPT
                                           !.pc = "done", !.status = "raise",
                                           !.exc = made.exc])
              ELSE CallerMoves(p, [callers[p] EXCEPT !.pc = "done", !.val = <<>>])

(* The rest of the call: the downloads, and the return. *)
Download(p) ==
    /\ callers[p].pc = "download"
    /\ LET out == IF callers[p].op = "get_files"
                  THEN S3FileSystem_get_files(disk, s3, Kb1, Doc1,
                                              Some(RacePages[1]), Some(RacePages[2]))
                  ELSE S3FileSystem_get_all_jpg_files(disk, s3, Kb1, Doc1)
       IN  /\ disk' = out.disk
           /\ CallerMoves(p, [callers[p] EXCEPT
                                 !.pc = "done", !.status = out.status,
                                 !.exc = out.exc, !.val = out.val])

NextCallers ==
    \/ \E name \in RaceNames : NoneBegun /\ SaveImage(backend, Kb1, Doc1, name, "imgA", TRUE)
    \/ \E p \in Callers, op \in {"get_files", "get_all_jpg_files"} : Begin(p, op)
    \/ \E p \in Callers : TestExists(p)
    \/ \E p \in Callers : MakedirsHead(p)
    \/ \E p \in Callers : MakedirsLeaf(p)
    \/ \E p \in Callers : Download(p)

SpecCallers == Init /\ [][NextCallers]_vars

(* The paths of the images the bucket holds for the document, in page order. *)
RacePaths ==
    (IF Stored(S3, Kb1, Doc1, PageImage(9, 1))
     THEN <<LocalPathOf(S3, Kb1, Doc1, PageImage(9, 1))>> ELSE <<>>)
    \o (IF Stored(S3, Kb1, Doc1, PageImage(10, 3))
        THEN <<LocalPathOf(S3, Kb1, Doc1, PageImage(10, 3))>> ELSE <<>>)

(* C17: when concurrent callers of get_files / get_all_jpg_files of one     *)
(* document race to make its mirror directory, no caller fails because the  *)
(* directory exists already: none raises, a caller whose os.mkdir found the *)
(* directory made is at its downloads or past them, and each returns the    *)
(* paths of the images the bucket holds.                                    *)
C17_MirrorRaceTolerated ==
    \A p \in Callers :
        /\ callers[p].status = "ok"
        /\ callers[p].lost => callers[p].pc \in {"download", "done"}
        /\ callers[p].pc = "done" => callers[p].val = RacePaths

C17_Witness ==
    \E p, q \in Callers :
        /\ p # q
        /\ callers[p].pc = "done" /\ callers[q].pc = "done"
        /\ callers[p].op = "get_files" /\ callers[p].absent /\ callers[p].lost
        /\ callers[q].absent /\ ~callers[q].lost
        /\ Len(RacePaths) = 2
        /\ callers[p].val = RacePaths /\ callers[q].val = RacePaths

C17_WitnessExistOk ==
    \E p \in Callers :
        /\ callers[p].pc = "done"
        /\ callers[p].op = "get_all_jpg_files" /\ callers[p].lost
        /\ callers[p].val = RacePaths /\ RacePaths # <<>>

--------------------------------------------------------------------------
(* Deletes among documents and knowledge bases whose ids are prefixes of    *)
(* one another: kb1/doc1, kb1/doc10 and kb10/doc1.                          *)
FrameDocs == {<<Kb1, Doc1>>, <<Kb1, Doc10>>, <<Kb10, Doc1>>}

NextFrame ==
    \/ \E kd \in FrameDocs : CreateDirectory(backend, kd[1], kd[2])
    \/ \E kd \in FrameDocs : SavePageContent(backend, kd[1], kd[2], 1, "hello", TRUE)
    \/ \E kd \in FrameDocs : DeleteDirectory(backend, kd[1], kd[2])
    \/ \E kb \in {Kb1, Kb10} : DeleteKb(backend, kb)

SpecFrame == Init /\ [][NextFrame]_vars

(* The knowledge base and the document an object key names: its first two  *)
(* components.  A path of the disk names them after its base path.          *)
AfterFirst(s, sep) ==
    IF Positions(s, sep) = {} THEN <<>>
    ELSE SubSeq(s, SetMin(Positions(s, sep)) + 1, Len(s))

KeyOwner(key) ==
    [kb |-> BeforeFirst(key, "/"), doc |-> BeforeFirst(AfterFirst(key, "/"), "/")]

PathOwner(path) == KeyOwner(AfterFirst(path, "/"))

(* What a delete_directory(kb, doc) or delete_kb(kb) call addresses. *)
Addressed(owner, op, kb, doc) ==
    /\ owner.kb = kb
    /\ op = "delete_kb" \/ owner.doc = doc

(* C18: delete_directory(kb, doc) and delete_kb(kb) leave every object,     *)
(* file and directory that is not under the addressed document (knowledge   *)
(* base) as it was, ids that are string prefixes of one another included,   *)
(* on both backends.                                                        *)
C18_DeleteFrame ==
    [][ ret'.op \in {"delete_directory", "delete_kb"} =>
          /\ \A k \in DOMAIN s3 :
                ~Addressed(KeyOwner(k), ret'.op, ret'.kb, ret'.doc) =>
                    k \in DOMAIN s3' /\ s3'[k] = s3[k]
          /\ \A q \in DOMAIN disk.files :
                ~Addressed(PathOwner(q), ret'.op, ret'.kb, ret'.doc) =>
                    q \in DOMAIN disk'.files /\ disk'.files[q] = disk.files[q]
          /\ \A q \in disk.dirs :
                ~Addressed(PathOwner(q), ret'.op, ret'.kb, ret'.doc) => q \in disk'.dirs
      ]_vars

DeletedAfterSave(fs, kb, doc) ==
    /\ <<fs, kb, doc, 1>> \in DOMAIN lastContent
    /\ ~lastContent[<<fs, kb, doc, 1>>].live
    /\ ~Stored(fs, kb, doc, PageContentName(1))

C18_Witness ==
    /\ ret.op = "delete_directory" /\ ret.fs = S3 /\ ret.kb = Kb1 /\ ret.doc = Doc1
    /\ ret.status = "ok"
    /\ DeletedAfterSave(S3, Kb1, Doc1)
    /\ Stored(S3, Kb1, Doc10, PageContentName(1))
    /\ Stored(S3, Kb10, Doc1, PageContentName(1))

C18_WitnessKb ==
    /\ ret.op = "delete_kb" /\ ret.fs = Local /\ ret.kb = Kb1
    /\ ret.status = "ok"
    /\ DeletedAfterSave(Local, Kb1, Doc1)
    /\ DeletedAfterSave(Local, Kb1, Doc10)
    /\ Stored(Local, Kb10, Doc1, PageContentName(1))

--------------------------------------------------------------------------
(* C19: on the S3 backend get_files returns a path for a page only if the   *)
(* bucket holds an image object for that page when it is called: every path *)
(* returned is the mirror path of an object of the bucket, so a file that   *)
(* an earlier read left in the mirror is not returned once its object is    *)
(* deleted.                                                                 *)
C19_StoreDecides ==
    (IsGetFilesCall /\ ret.fs = S3) =>
        \A i \in 1..Len(ret.val) :
            \E n \in RetPages, e \in 1..3 :
                /\ ret.val[i] = LocalPathOf(S3, ret.kb, ret.doc, PageImage(n, e))
                /\ Stored(S3, ret.kb, ret.doc, PageImage(n, e))

C19_Witness ==
    /\ IsGetFilesCall
    /\ ret.fs = S3
    /\ 9 \in RetPages
    /\ IsFile(disk, LocalPathOf(S3, Kb1, Doc1, PageImage(9, 1)))
    /\ \A e \in 1..3 : ~Stored(S3, Kb1, Doc1, PageImage(9, e))
    /\ ret.status = "ok"
    /\ ret.val = <<>>

--------------------------------------------------------------------------
(* A local and an S3 backend with one base_path, and images saved through   *)
(* both for one document; the caller reads through the backend it was      *)
(* configured with.                                                         *)
SameBasePages == {Some(9), Some(10)}

NextSameBase ==
    \/ \E fs \in FsNames : CreateDirectory(fs, Kb1, Doc1)
    \/ \E fs \in FsNames, name \in ImageNames :
            SaveImage(fs, Kb1, Doc1, name, "imgA", TRUE)
    \/ \E fs \in FsNames : DeleteDirectory(fs, Kb1, Doc1)
    \/ \E page_start \in SameBasePages, page_end \in SameBasePages :
            GetFiles(backend, Kb1, Doc1, page_start, page_end)

SpecSameBase == Init /\ [][NextSameBase]_vars

(* Both backends hold the same page-image names for document kb/doc. *)
SameImageNames(kb, doc) ==
    \A n \in 8..10, e \in 1..3 :
        Stored(Local, kb, doc, PageImage(n, e)) <=> Stored(S3, kb, doc, PageImage(n, e))

OtherBackend(fs) == IF fs = Local THEN S3 ELSE Local

GetFilesOf(fs, d, store, kb, doc, page_start, page_end) ==
    IF fs = Local THEN LocalFileSystem_get_files(d, store, kb, doc, page_start, page_end)
    ELSE S3FileSystem_get_files(d, store, kb, doc, page_start, page_end)

(* C20: with one base_path and the same page-image names held for a         *)
(* document, a get_files call returns the sequence of paths that the other  *)
(* backend returns for the same arguments.                                  *)
C20_SamePathsFromBothBackends ==
    [][ (ret'.op = "get_files" /\ SameImageNames(ret'.kb, ret'.doc)) =>
            /\ ret'.status = "ok"
            /\ ret'.val = GetFilesOf(OtherBackend(ret'.fs), disk, s3, ret'.kb, ret'.doc,
                                     ret'.page_start, ret'.page_end).val
      ]_vars

C20_Witness ==
    /\ IsGetFilesCall
    /\ ret.fs = S3
    /\ SameImageNames(Kb1, Doc1)
    /\ Stored(S3, Kb1, Doc1, PageImage(9, 2))
    /\ Stored(S3, Kb1, Doc1, PageImage(9, 3))
    /\ Stored(S3, Kb1, Doc1, PageImage(10, 3))
    /\ ret.val = <<LocalPathOf(Local, Kb1, Doc1, PageImage(9, 2)),
                   LocalPathOf(Local, Kb1, Doc1, PageImage(10, 3))>>

--------------------------------------------------------------------------
(* C22: from_dict takes the subclass_name entry out of the dict it is given *)
(* and leaves every other entry of it as it was; the entries left are the   *)
(* keyword arguments of the class named: the backend made is of that class  *)
(* and holds each of them under its name, and an entry the class has no     *)
(* parameter for is refused with TypeError, not dropped.                    *)
C22_FromDictPassesTheRest ==
    [][ ret'.op = "from_dict" =>
          LET given == config.dict
              rest  == (DOMAIN given) \ {"subclass_name"}
              named == DictGet(given, "subclass_name", None)
          IN  /\ DOMAIN config'.dict = rest
              /\ \A k \in rest : config'.dict[k] = given[k]
              /\ ret'.status = "ok" =>
                    /\ fsys'.cls = named[1]
                    /\ \A k \in rest : fsys'.attrs[k] = given[k]
              /\ (named \in DOMAIN subclasses /\ ~(rest \subseteq InitParams(subclasses[named])))
                    => (ret'.status = "raise" /\ ret'.exc = "TypeError" /\ fsys' = fsys)
      ]_vars

(* A local backend made from a hand-written descriptor. *)
C22_Witness ==
    /\ ret.op = "from_dict"
    /\ ret.status = "ok"
    /\ fsys.cls = Local
    /\ DOMAIN config.dict = {"base_path"}
    /\ config.dict["base_path"] = OtherBase
    /\ fsys.attrs["base_path"] = OtherBase

(* An entry the class named has no parameter for reaches the constructor. *)
C22_WitnessRefused ==
    /\ ret.op = "from_dict"
    /\ ret.exc = "TypeError"
    /\ DOMAIN config.dict = {"base_path", "bucket_name"}

--------------------------------------------------------------------------
(* Two operations running at once on different documents.  The documents    *)
(* are set up first, one call after the other; then both operations start   *)
(* and their file-system and S3 calls interleave.  Each worker keeps what   *)
(* its operation gives when it runs by itself from the state at the start.  *)
Workers == {1, 2}

(* The documents of the two workers: in one knowledge base, or in two.  A   *)
(* delete_kb is run only on a knowledge base the other worker is not in.    *)
WorkerKeys ==
    {<< <<Kb1, Doc1>>, <<Kb1, Doc10>> >>, << <<Kb1, Doc1>>, <<Kb10, Doc1>> >>}

WorkerOps == {"create_directory", "delete_directory", "delete_kb", "save_page_content"}

OpAlone(fs, op, d, store, kb, doc) ==
    CASE op = "create_directory" ->
            IF fs = Local THEN LocalFileSystem_create_directory(d, store, kb, doc)
            ELSE S3FileSystem_create_directory(d, store, kb, doc)
      [] op = "delete_directory" -> DeleteDirectoryOf(fs, d, store, kb, doc)
      [] op = "delete_kb" ->
            IF fs = Local THEN LocalFileSystem_delete_kb(d, store, kb)
            ELSE S3FileSystem_delete_kb(d, store, kb)
      [] OTHER ->
            IF fs = Local
            THEN LocalFileSystem_save_page_content(d, store, kb, doc, 1, "bye", TRUE)
            ELSE S3FileSystem_save_page_content(d, store, kb, doc, 1, "bye", TRUE)

(* Where each method begins. *)
FirstPc(fs, op) ==
    IF fs = Local
    THEN CASE op = "create_directory" -> "exists"
           [] op = "delete_directory" -> "isdir"
           [] op = "delete_kb" -> "kb_exists"
           [] OTHER -> "write"
    ELSE CASE op = "create_directory" -> "pass"
           [] op = "save_page_content" -> "put"
           [] OTHER -> "list"

Start(keys, ops) ==
    /\ NoneBegun
    /\ \A p \in Workers : ops[p] = "delete_kb" => keys[1][1] # keys[2][1]
    /\ callers' = [p \in Workers |->
                      LET alone == OpAlone(backend, ops[p], disk, s3, keys[p][1], keys[p][2])
                      IN  [pc |-> FirstPc(backend, ops[p]), op |-> ops[p],
                           kb |-> keys[p][1], doc |-> keys[p][2], todo |-> {},
                           status |-> "ok", exc |-> "",
                           alone |-> [disk |-> alone.disk, s3 |-> alone.s3,
                                      status |-> alone.status, exc |-> alone.exc]]]
    /\ UNCHANGED <<backend, disk, s3, ret, lastJson, lastContent, fsys, config, subclasses,
                   table>>

WorkerMoves(p, rec, d, store) ==
    /\ callers' = [callers EXCEPT ![p] = rec]
    /\ disk' = d
    /\ s3' = store
    /\ UNCHANGED <<backend, ret, lastJson, lastContent, fsys, config, subclasses, table>>

At(p, pc) == p \in DOMAIN callers /\ callers[p].pc = pc

Goes(p, pc) == [callers[p] EXCEPT !.pc = pc]

Ends(p, status, exc) == [callers[p] EXCEPT !.pc = "done", !.status = status, !.exc = exc]

WorkerPath(p) == DocPath(LocalBase, callers[p].kb, callers[p].doc)

(* LocalFileSystem.create_directory: "if os.path.exists(page_images_path)" *)
StepExists(p) ==
    /\ At(p, "exists")
    /\ WorkerMoves(p, Goes(p, IF PathExists(disk, WorkerPath(p)) THEN "listdir" ELSE "head"),
                   disk, s3)

(* LocalFileSystem.delete_directory: "if exists(...) and isdir(...)" *)
StepIsDir(p) ==
    /\ At(p, "isdir")
    /\ WorkerMoves(p, IF IsDir(disk, WorkerPath(p)) THEN Goes(p, "listdir")
                      ELSE Ends(p, "ok", ""),
                   disk, s3)

(* os.listdir(page_images_path): the entries the loop will remove. *)
StepListDir(p) ==
    /\ At(p, "listdir")
    /\ WorkerMoves(p,
                   IF ~IsDir(disk, WorkerPath(p))
                   THEN Ends(p, "raise", IF PathExists(disk, WorkerPath(p))
                                         THEN "NotADirectoryError" ELSE "FileNotFoundError")
                   ELSE [callers[p] EXCEPT
                            !.todo = ListDir(disk, WorkerPath(p)),
                            !.pc = IF ListDir(disk, WorkerPath(p)) = {} THEN "rmdir"
                                   ELSE "remove"],
                   disk, s3)

(* os.remove(os.path.join(page_images_path, file)) for one entry. *)
StepRemove(p) ==
    /\ At(p, "remove")
    /\ \E file \in callers[p].todo :
          LET path == PathJoin(WorkerPath(p), file)
              left == callers[p].todo \ {file}
          IN  IF IsFile(disk, path)
              THEN WorkerMoves(p, [callers[p] EXCEPT
                                      !.todo = left,
                                      !.pc = IF left = {} THEN "rmdir" ELSE "remove"],
                               RemoveFiles(disk, {path}), s3)
              ELSE WorkerMoves(p, Ends(p, "raise", IF IsDir(disk, path)
                                                   THEN "IsADirectoryError"
                                                   ELSE "FileNotFoundError"),
                               disk, s3)

(* os.rmdir(page_images_path), and in create_directory on to os.makedirs. *)
StepRmdir(p) ==
    /\ At(p, "rmdir")
    /\ IF ~IsDir(disk, WorkerPath(p))
       THEN WorkerMoves(p, Ends(p, "raise", "FileNotFoundError"), disk, s3)
       ELSE IF ListDir(disk, WorkerPath(p)) # {}
            THEN WorkerMoves(p, Ends(p, "raise", "OSError"), disk, s3)
       ELSE WorkerMoves(p, IF callers[p].op = "create_directory" THEN Goes(p, "head")
                           ELSE Ends(p, "ok", ""),
                        RemoveDir(disk, WorkerPath(p)), s3)

(* os.makedirs(page_images_path, exist_ok=False): the missing ancestors. *)
StepHead(p) ==
    /\ At(p, "head")
    /\ WorkerMoves(p, Goes(p, "leaf"), MakeHead(disk, WorkerPath(p)), s3)

(* os.makedirs(page_images_path, exist_ok=False): the directory itself. *)
StepLeaf(p) ==
    /\ At(p, "leaf")
    /\ LET made == Mkdir(disk, WorkerPath(p))
       IN  WorkerMoves(p, Ends(p, made.status, made.exc), made.disk, s3)

(* save_page_content: open and write on the local backend, put_object on S3. *)
StepWrite(p) ==
    /\ At(p, "write") \/ At(p, "put")
    /\ LET out == OpAlone(backend, "save_page_content", disk, s3, callers[p].kb,
                          callers[p].doc)
       IN  WorkerMoves(p, Ends(p, out.status, out.exc), out.disk, out.s3)

(* LocalFileSystem.delete_kb: "if os.path.exists(kb_path)" *)
StepKbExists(p) ==
    /\ At(p, "kb_exists")
    /\ WorkerMoves(p, IF PathExists(disk, PathJoin(LocalBase, callers[p].kb))
                      THEN Goes(p, "kb_list") ELSE Ends(p, "ok", ""),
                   disk, s3)

(* os.listdir(kb_path) *)
StepKbList(p) ==
    /\ At(p, "kb_list")
    /\ LET kb_path == PathJoin(LocalBase, callers[p].kb)
       IN  WorkerMoves(p,
                       IF ~IsDir(disk, kb_path) THEN Ends(p, "raise", "NotADirectoryError")
                       ELSE [callers[p] EXCEPT
                                !.todo = ListDir(disk, kb_path),
                                !.pc = IF ListDir(disk, kb_path) = {} THEN "kb_self"
                                       ELSE "kb_each"],
                       disk, s3)

(* self.delete_directory(kb_id, doc_id) for one entry of the listing. *)
StepKbEach(p) ==
    /\ At(p, "kb_each")
    /\ \E doc_id \in callers[p].todo :
          LET out  == LocalFileSystem_delete_directory(disk, s3, callers[p].kb, doc_id)
              left == callers[p].todo \ {doc_id}
          IN  WorkerMoves(p,
                          IF out.status = "raise" THEN Ends(p, "raise", out.exc)
                          ELSE [callers[p] EXCEPT
                                   !.todo = left,
                                   !.pc = IF left = {} THEN "kb_self" ELSE "kb_each"],
                          out.disk, out.s3)

(* self.delete_directory(kb_id, "") *)
StepKbSelf(p) ==
    /\ At(p, "kb_self")
    /\ LET out == LocalFileSystem_delete_directory(disk, s3, callers[p].kb, <<>>)
       IN  WorkerMoves(p, Ends(p, out.status, out.exc), out.disk, out.s3)

(* S3FileSystem.create_directory: pass *)
StepPass(p) ==
    /\ At(p, "pass")
    /\ WorkerMoves(p, Ends(p, "ok", ""), disk, s3)

(* S3FileSystem.delete_directory / delete_kb: list_objects_v2 *)
StepList(p) ==
    /\ At(p, "list")
    /\ LET prefix == IF callers[p].op = "delete_kb" THEN KbPrefix(callers[p].kb)
                     ELSE DocPrefix(callers[p].kb, callers[p].doc)
           contents == ListObjectsV2(s3, prefix)
       IN  WorkerMoves(p, IF contents # <<>>
                          THEN [callers[p] EXCEPT !.todo = SeqRange(contents), !.pc = "delete"]
                          ELSE Ends(p, "ok", ""),
                       disk, s3)

(* S3FileSystem.delete_directory / delete_kb: delete_objects *)
StepDelete(p) ==
    /\ At(p, "delete")
    /\ WorkerMoves(p, Ends(p, "ok", ""), disk, DeleteObjects(s3, callers[p].todo))

NextWorkers ==
    \/ \E kd \in FrameDocs : NoneBegun /\ CreateDirectory(backend, kd[1], kd[2])
    \/ \E kd \in FrameDocs :
            NoneBegun /\ SavePageContent(backend, kd[1], kd[2], 1, "hello", TRUE)
    \/ \E keys \in WorkerKeys, ops \in [Workers -> WorkerOps] : Start(keys, ops)
    \/ \E p \in Workers : StepExists(p)
    \/ \E p \in Workers : StepIsDir(p)
    \/ \E p \in Workers : StepListDir(p)
    \/ \E p \in Workers : StepRemove(p)
    \/ \E p \in Workers : StepRmdir(p)
    \/ \E p \in Workers : StepHead(p)
    \/ \E p \in Workers : StepLeaf(p)
    \/ \E p \in Workers : StepWrite(p)
    \/ \E p \in Workers : StepKbExists(p)
    \/ \E p \in Workers : StepKbList(p)
    \/ \E p \in Workers : StepKbEach(p)
    \/ \E p \in Workers : StepKbSelf(p)
    \/ \E p \in Workers : StepPass(p)
    \/ \E p \in Workers : StepList(p)
    \/ \E p \in Workers : StepDelete(p)

SpecWorkers == Init /\ [][NextWorkers]_vars

(* What an operation on (kb, doc) owns in a state: the directories, files   *)
(* and objects of the document, or for delete_kb of the knowledge base.     *)
OwnedIn(d, store, op, kb, doc) ==
    [dirs  |-> {q \in d.dirs : Addressed(PathOwner(q), op, kb, doc)},
     files |-> [q \in {f \in DOMAIN d.files : Addressed(PathOwner(f), op, kb, doc)}
                   |-> d.files[q]],
     objs  |-> [k \in {o \in DOMAIN store : Addressed(KeyOwner(o), op, kb, doc)}
                   |-> store[k]]]

Done(p) == At(p, "done")

(* C21: two operations on different documents, interleaved in every way:    *)
(* each ends as it ends when run alone, with the same error or none, and    *)
(* what it addresses is then, and stays, in the state it is left in when    *)
(* the operation runs alone.                                                *)
C21_DifferentKeysIndependent ==
    \A p \in Workers :
        Done(p) =>
            /\ callers[p].status = callers[p].alone.status
            /\ callers[p].exc = callers[p].alone.exc
            /\ OwnedIn(disk, s3, callers[p].op, callers[p].kb, callers[p].doc)
                 = OwnedIn(callers[p].alone.disk, callers[p].alone.s3, callers[p].op,
                           callers[p].kb, callers[p].doc)

(* Two create_directory calls in one knowledge base, run at once: both are  *)
(* done and each document has its directory, the second of which is not in  *)
(* what the first gives alone.                                              *)
C21_Witness ==
    /\ Done(1) /\ Done(2)
    /\ backend = Local
    /\ callers[1].op = "create_directory" /\ callers[2].op = "create_directory"
    /\ callers[2].kb = Kb1
    /\ callers[1].status = "ok" /\ callers[2].status = "ok"
    /\ IsDir(disk, DocPath(LocalBase, Kb1, Doc1))
    /\ IsDir(disk, DocPath(LocalBase, Kb1, Doc10))
    /\ ~IsDir(callers[1].alone.disk, DocPath(LocalBase, Kb1, Doc10))

C21_WitnessS3 ==
    /\ Done(1) /\ Done(2)
    /\ backend = S3
    /\ callers[1].op = "delete_directory" /\ callers[2].op = "save_page_content"
    /\ callers[2].kb = Kb1
    /\ ~Stored(S3, Kb1, Doc1, PageContentName(1))
    /\ Stored(S3, Kb1, Doc10, PageContentName(1))
    /\ ObjectKey(Kb1, Doc1, PageContentName(1)) \in DOMAIN callers[2].alone.s3

====
